---- MODULE Spec2Model ----
(***************************************************************************)
(* Model of the red-sculpin IEEE 488.2 / SCPI codec: the Decoder and       *)
(* Encoder state machines (src/src/decode.rs, src/src/encode.rs), the      *)
(* per-type decode and encode algorithms, and the numeric abstractions of  *)
(* src/src/internal.rs.                                                    *)
(*                                                                         *)
(* Bytes are the integers 0..255.  A byte source is the sequence of bytes  *)
(* not yet read (the &[u8] source of src/src/lib.rs); a byte sink is the   *)
(* sequence of bytes written so far (the Vec<u8> sink of src/src/lib.rs).  *)
(***************************************************************************)
EXTENDS Integers, Sequences, FiniteSets, TLC

VARIABLES
    decoder,   \* Decoder { source, state, peeked }
    dcall,     \* the last Decoder operation and what it returned
    encoder,   \* Encoder { sink, state }
    ecall,     \* the last Encoder operation and what it returned
    rt,        \* an encode-then-decode experiment (round trips)
    build      \* "debug" or "release": whether debug_assert! is compiled in

vars == <<decoder, dcall, encoder, ecall, rt, build>>

(***************************************************************************)
(* Protocol constants                                                      *)
(***************************************************************************)
PROGRAM_MESSAGE_UNIT_SEPARATOR == 59
PROGRAM_DATA_SEPARATOR == 44
PROGRAM_HEADER_SEPARATOR == 32
PROGRAM_MESSAGE_TERMINATOR == 10

\* Option<u8>::None of the peek buffer, and "no byte" in call records.
NoByte == -1

(***************************************************************************)
(* Bounds of the model                                                     *)
(***************************************************************************)
\* longest byte source given to the Decoder state machine
MaxSrc == 3
\* longest sink the Encoder state machine is driven to
MaxSink == 4
\* integers 0..Dense and -Dense..-1 are tried for every integer type
Dense == 130
\* MAX-k and MIN+k are tried for k in 0..Near
Near == 2
\* longest mantissa (significant decimal digits) of a float value
MaxMant == 3
\* decimal exponents of float values range over -MaxExp..MaxExp, with 37 and -37
MaxExp == 2
\* longest string given to encode_string
MaxStr == 3
\* longest block given to encode_definite_block byte by byte
MaxBlock == 3
\* longest list given to ProgramList
MaxList == 3
\* longest string of a (string, integer) pair
MaxPairStr == 1
\* longest source tried byte by byte over the alphabet of a token
MaxTok == 3
\* longest run of digits in a source put together from the parts of a token
MaxRun == 2
\* longest source tried byte by byte for a string
MaxStrTok == 6
MaxCmds == 3
MaxChars == 3
\* longest source decoded as a tuple or a list
MaxComp == 4
\* most members of an encoded tuple or list
MaxItems == 3
\* largest capacity of a bounded target
MaxCap == 2
\* longest source decoded into a bounded target
MaxCapTok == 4

(***************************************************************************)
(* Unbounded integers.  TLC's integers are 32 bits wide, the program's go  *)
(* up to 128, so the magnitude of an integer value is a little-endian      *)
(* sequence of base-256 limbs without high zero limbs (<<>> is zero), and  *)
(* an integer value is [neg, mag].                                         *)
(***************************************************************************)
RECURSIVE Normalize(_)
Normalize(mag) ==
    IF mag = <<>> THEN <<>>
    ELSE IF mag[Len(mag)] = 0 THEN Normalize(SubSeq(mag, 1, Len(mag) - 1))
    ELSE mag

\* mag * m + carry, for small m and carry
RECURSIVE MulAdd(_, _, _)
MulAdd(mag, m, carry) ==
    IF mag = <<>> THEN (IF carry = 0 THEN <<>> ELSE <<carry>>)
    ELSE LET t == Head(mag) * m + carry
         IN  <<t % 256>> \o MulAdd(Tail(mag), m, t \div 256)

\* mag - k for 0 <= k < 256 and mag >= k, not normalized
RECURSIVE SubLimbs(_, _)
SubLimbs(mag, k) ==
    IF k = 0 THEN mag
    ELSE IF Head(mag) >= k THEN <<Head(mag) - k>> \o Tail(mag)
    ELSE <<Head(mag) + 256 - k>> \o SubLimbs(Tail(mag), 1)

SubSmall(mag, k) == Normalize(SubLimbs(mag, k))

\* quotient and remainder of mag by a small m
DivSmall(mag, m) ==
    LET n == Len(mag)
        rem[i \in 1..(n + 1)] ==
            IF i = n + 1 THEN 0 ELSE (rem[i + 1] * 256 + mag[i]) % m
    IN  [q |-> Normalize([i \in 1..n |-> (rem[i + 1] * 256 + mag[i]) \div m]),
         r |-> rem[1]]

\* -1, 0 or 1 as a < b, a = b, a > b (both normalized)
RECURSIVE CmpFrom(_, _, _)
CmpFrom(a, b, i) ==
    IF i = 0 THEN 0
    ELSE IF a[i] < b[i] THEN -1
    ELSE IF a[i] > b[i] THEN 1
    ELSE CmpFrom(a, b, i - 1)

Cmp(a, b) ==
    IF Len(a) < Len(b) THEN -1
    ELSE IF Len(a) > Len(b) THEN 1
    ELSE CmpFrom(a, b, Len(a))

\* 2^k
Pow2(k) == [i \in 1..((k \div 8) + 1) |-> IF i = (k \div 8) + 1 THEN 2 ^ (k % 8) ELSE 0]

RECURSIVE FromNat(_)
FromNat(n) == IF n = 0 THEN <<>> ELSE <<n % 256>> \o FromNat(n \div 256)

RECURSIVE Pow10(_)
Pow10(j) == IF j = 0 THEN <<1>> ELSE MulAdd(Pow10(j - 1), 10, 0)

(***************************************************************************)
(* Integer types: u8..u128 and i8..i128 (src/src/internal.rs, Integer)     *)
(***************************************************************************)
IntTypes == [signed : BOOLEAN, bits : {8, 16, 32, 64, 128}]

\* T::MAX
MaxMag(ty) == SubSmall(Pow2(IF ty.signed THEN ty.bits - 1 ELSE ty.bits), 1)
\* |T::MIN|
MinMag(ty) == IF ty.signed THEN Pow2(ty.bits - 1) ELSE <<>>

IntVal(neg, mag) == [neg |-> neg /\ mag # <<>>, mag |-> mag]

InRange(v, ty) ==
    IF v.neg THEN Cmp(v.mag, MinMag(ty)) <= 0 ELSE Cmp(v.mag, MaxMag(ty)) <= 0

\* char::to_digit for the radix: 99 stands for None
ToDigit(c, radix) ==
    LET x == IF c \in 48..57 THEN c - 48
             ELSE IF c \in 65..90 THEN c - 55
             ELSE IF c \in 97..122 THEN c - 87
             ELSE 99
    IN  IF x < radix THEN x ELSE 99

\* The digit loop of from_str_radix: checked_mul by the radix, then
\* checked_add (positive) or checked_sub (negative) of the digit.
RECURSIVE ParseDigits(_, _, _, _, _)
ParseDigits(digits, radix, ty, neg, acc) ==
    IF digits = <<>> THEN [ok |-> TRUE, val |-> IntVal(neg, acc)]
    ELSE LET x == ToDigit(Head(digits), radix)
             lim == IF neg THEN MinMag(ty) ELSE MaxMag(ty)
             mul == MulAdd(acc, radix, 0)
             nxt == MulAdd(mul, 1, x)
         IN  IF x = 99 \/ Cmp(mul, lim) > 0 \/ Cmp(nxt, lim) > 0
             THEN [ok |-> FALSE, val |-> IntVal(FALSE, <<>>)]
             ELSE ParseDigits(Tail(digits), radix, ty, neg, nxt)

\* <T as Integer>::from_str_radix: T::from_str_radix of the standard library
\* from_str_radix of i128 whatever the type: no check of the range of ty
FromStrRadixWide(s, radix, ty) ==
    LET fail == [ok |-> FALSE, val |-> IntVal(FALSE, <<>>)]
        wide == [signed |-> TRUE, bits |-> 128]
    IN  IF s = <<>> THEN fail
        ELSE IF Head(s) \in {43, 45} /\ Len(s) = 1 THEN fail
        ELSE IF Head(s) = 43 THEN ParseDigits(Tail(s), radix, wide, FALSE, <<>>)
        ELSE IF Head(s) = 45 THEN ParseDigits(Tail(s), radix, wide, TRUE, <<>>)
        ELSE ParseDigits(s, radix, wide, FALSE, <<>>)

FromStrRadix(s, radix, ty) ==
    LET fail == [ok |-> FALSE, val |-> IntVal(FALSE, <<>>)]
    IN  IF s = <<>> THEN fail
        ELSE IF Head(s) \in {43, 45} /\ Len(s) = 1 THEN fail
        ELSE IF Head(s) = 43 THEN ParseDigits(Tail(s), radix, ty, FALSE, <<>>)
        ELSE IF Head(s) = 45 /\ ty.signed THEN ParseDigits(Tail(s), radix, ty, TRUE, <<>>)
        ELSE ParseDigits(s, radix, ty, FALSE, <<>>)

\* the decimal digits of a magnitude, most significant first
RECURSIVE DecDigits(_)
DecDigits(mag) ==
    IF mag = <<>> THEN <<>>
    ELSE LET dm == DivSmall(mag, 10) IN DecDigits(dm.q) \o <<48 + dm.r>>

\* Display for an integer, as the pieces handed to fmt::Write::write_str:
\* the sign (when negative), then the digits.
FmtInteger(v) ==
    (IF v.neg THEN << <<45>> >> ELSE <<>>)
        \o << (IF v.mag = <<>> THEN <<48>> ELSE DecDigits(v.mag)) >>

(***************************************************************************)
(* Float values (src/src/internal.rs, Float).  A finite f32/f64 is held as *)
(* its shortest decimal form, the one "{:E}" prints and the one that       *)
(* parses back to it: digits d1 d2 .. dn (d1 # 0 and dn # 0, or the single *)
(* digit 0) and the decimal exponent exp of d1, the value being            *)
(* d1.d2..dn * 10^exp.  Binary rounding is outside the model; within the   *)
(* exponents tried every value lies in the range of both f32 and f64.      *)
(***************************************************************************)
FloatTypes == {"f32", "f64"}

Finite(neg, digits, exp) == [kind |-> "finite", neg |-> neg, digits |-> digits, exp |-> exp]
Infinity(neg) == [kind |-> "inf", neg |-> neg, digits |-> <<>>, exp |-> 0]
NaN == [kind |-> "nan", neg |-> FALSE, digits |-> <<>>, exp |-> 0]

\* Float::is_finite, is_nan, is_sign_positive
FloatIsFinite(v) == v.kind = "finite"
FloatIsNan(v) == v.kind = "nan"
FloatIsSignPositive(v) == ~v.neg

\* the decimal text of a small natural number
RECURSIVE NatText(_)
NatText(n) == IF n < 10 THEN <<48 + n>> ELSE NatText(n \div 10) \o <<48 + (n % 10)>>

\* UpperExp ("{:E}") for a finite float, as the pieces handed to write_str:
\* the sign, the first digit, "." and the other digits when there are any,
\* "E" or "E-", the exponent
FmtUpperExp(v) ==
    (IF v.neg THEN << <<45>> >> ELSE <<>>)
        \o << <<48 + Head(v.digits)>> >>
        \o (IF Len(v.digits) > 1
            THEN << <<46>>, [i \in 1..(Len(v.digits) - 1) |-> 48 + v.digits[i + 1]] >>
            ELSE <<>>)
        \o (IF v.exp < 0 THEN << <<69, 45>>, NatText(-v.exp) >>
            ELSE << <<69>>, NatText(v.exp) >>)

\* the first index of s holding a byte of set, or 0
RECURSIVE IndexIn(_, _, _)
IndexIn(s, set, i) ==
    IF i > Len(s) THEN 0 ELSE IF s[i] \in set THEN i ELSE IndexIn(s, set, i + 1)

AllDigits(s) == \A i \in 1..Len(s) : s[i] \in 48..57

RECURSIVE TextNat(_, _)
TextNat(s, acc) == IF s = <<>> THEN acc ELSE TextNat(Tail(s), acc * 10 + (Head(s) - 48))

RECURSIVE StripLeadingZeros(_)
StripLeadingZeros(ds) ==
    IF ds # <<>> /\ Head(ds) = 0 THEN StripLeadingZeros(Tail(ds)) ELSE ds

RECURSIVE StripTrailingZeros(_)
StripTrailingZeros(ds) ==
    IF ds # <<>> /\ ds[Len(ds)] = 0
    THEN StripTrailingZeros(SubSeq(ds, 1, Len(ds) - 1)) ELSE ds

\* core::str::FromStr for f32/f64 on a decimal literal: [sign] digits
\* [. digits] [E [sign] digits], with a digit in the mantissa
ParseFloat(text) ==
    LET fail == [ok |-> FALSE, val |-> NaN]
        signed == text # <<>> /\ Head(text) \in {43, 45}
        neg == signed /\ Head(text) = 45
        body == IF signed THEN Tail(text) ELSE text
        e == IndexIn(body, {69, 101}, 1)
        mant == IF e = 0 THEN body ELSE SubSeq(body, 1, e - 1)
        expo == IF e = 0 THEN <<>> ELSE SubSeq(body, e + 1, Len(body))
        esigned == expo # <<>> /\ Head(expo) \in {43, 45}
        edigits == IF esigned THEN Tail(expo) ELSE expo
        dot == IndexIn(mant, {46}, 1)
        int == IF dot = 0 THEN mant ELSE SubSeq(mant, 1, dot - 1)
        frac == IF dot = 0 THEN <<>> ELSE SubSeq(mant, dot + 1, Len(mant))
        all == [i \in 1..(Len(int) + Len(frac)) |->
                   IF i <= Len(int) THEN int[i] - 48 ELSE frac[i - Len(int)] - 48]
        lead == StripLeadingZeros(all)
        digits == StripTrailingZeros(lead)
        ten == (IF esigned /\ Head(expo) = 45 THEN -1 ELSE 1) * TextNat(edigits, 0)
    IN  IF ~AllDigits(int) \/ ~AllDigits(frac) \/ Len(int) + Len(frac) = 0 THEN fail
        ELSE IF e # 0 /\ (edigits = <<>> \/ ~AllDigits(edigits)) THEN fail
        ELSE IF digits = <<>> THEN [ok |-> TRUE, val |-> Finite(neg, <<0>>, 0)]
        ELSE [ok |-> TRUE,
              val |-> Finite(neg, digits, Len(int) - (Len(all) - Len(lead)) - 1 + ten)]

\* the IEEE 488.2 sentinels 9.9E+37, -9.9E+37 and 9.91E+37 of a parsed value
FloatSentinels(p) ==
    IF ~p.ok THEN p
    ELSE IF p.val = Finite(FALSE, <<9, 9>>, 37) THEN [ok |-> TRUE, val |-> Infinity(FALSE)]
    ELSE IF p.val = Finite(TRUE, <<9, 9>>, 37) THEN [ok |-> TRUE, val |-> Infinity(TRUE)]
    ELSE IF p.val = Finite(FALSE, <<9, 9, 1>>, 37) THEN [ok |-> TRUE, val |-> NaN]
    ELSE p

\* <f32 as Float>::from_str, <f64 as Float>::from_str: the parse, then the
\* sentinels
FloatFromStr(text, fty) == FloatSentinels(ParseFloat(text))

\* == of two floats: NaN equals nothing, and -0.0 == 0.0
FloatEq(a, b) ==
    /\ a.kind # "nan"
    /\ b.kind # "nan"
    /\ \/ a = b
       \/ a.kind = "finite" /\ b.kind = "finite" /\ a.digits = <<0>> /\ b.digits = <<0>>

(***************************************************************************)
(* Decoder (src/src/decode.rs)                                             *)
(*                                                                         *)
(* Every operation is an operator from the decoder to a result record      *)
(*   d    the decoder after the call                                       *)
(*   ok   whether the call returned Ok                                     *)
(*   err  the DecodeError kind ("None" when ok)                            *)
(*   st   the state carried by InvalidDecodeState ("None" otherwise)       *)
(*   val  the value returned                                               *)
(*   ew   the byte the call passed to end_with (NoByte when it made none)  *)
(*   tgt  the bytes the call wrote to the caller's target                  *)
(***************************************************************************)
DecodeStates == {"Initial", "Data", "DataExpected", "MessageUnitExpected", "End"}

NewDecoder(src) == [source |-> src, state |-> "Initial", peeked |-> NoByte]

Done(d, val, ew, tgt) ==
    [d |-> d, ok |-> TRUE, err |-> "None", st |-> "None", val |-> val, ew |-> ew, tgt |-> tgt]

Fail(d, err, ew, tgt) ==
    [d |-> d, ok |-> FALSE, err |-> err,
     st |-> IF err = "InvalidDecodeState" THEN d.state ELSE "None",
     val |-> NoByte, ew |-> ew, tgt |-> tgt]

\* <&[u8] as ByteSource>::read_byte
SourceReadByte(src) ==
    IF Len(src) = 0 THEN [ok |-> FALSE, byte |-> NoByte, rest |-> src]
    ELSE [ok |-> TRUE, byte |-> Head(src), rest |-> Tail(src)]

\* read_byte answering the end of the source with Parse
ReadByteEndParse(d) ==
    IF d.peeked # NoByte
    THEN Done([d EXCEPT !.peeked = NoByte], d.peeked, NoByte, <<>>)
    ELSE LET r == SourceReadByte(d.source)
         IN  IF r.ok THEN Done([d EXCEPT !.source = r.rest], r.byte, NoByte, <<>>)
             ELSE Fail(d, "Parse", NoByte, <<>>)

ReadByte(d) ==
    IF d.peeked # NoByte
    THEN Done([d EXCEPT !.peeked = NoByte], d.peeked, NoByte, <<>>)
    ELSE LET r == SourceReadByte(d.source)
         IN  IF r.ok THEN Done([d EXCEPT !.source = r.rest], r.byte, NoByte, <<>>)
             ELSE Fail(d, "UnexpectedEnd", NoByte, <<>>)

\* peek_byte that does not keep the byte it took from the source
PeekByteNoStore(d) ==
    IF d.peeked # NoByte
    THEN Done(d, d.peeked, NoByte, <<>>)
    ELSE LET r == SourceReadByte(d.source)
         IN  IF r.ok THEN Done([d EXCEPT !.source = r.rest], r.byte, NoByte, <<>>)
             ELSE Fail(d, "UnexpectedEnd", NoByte, <<>>)

PeekByte(d) ==
    IF d.peeked # NoByte
    THEN Done(d, d.peeked, NoByte, <<>>)
    ELSE LET r == SourceReadByte(d.source)
         IN  IF r.ok
             THEN Done([d EXCEPT !.source = r.rest, !.peeked = r.byte], r.byte, NoByte, <<>>)
             ELSE Fail(d, "UnexpectedEnd", NoByte, <<>>)

\* white space with the newline in it
IsWhitespaceWithNewline(b) == b \in 0..32

\* IEEE 488.2 7.4.1.2 white space: 0x00..=0x09 | 0x0b..=0x20
IsWhitespace(b) == b \in 0..9 \/ b \in 11..32

RECURSIVE SkipWhitespace(_)
SkipWhitespace(d) ==
    LET r == ReadByte(d)
    IN  IF ~r.ok THEN r
        ELSE IF IsWhitespace(r.val) THEN SkipWhitespace(r.d)
        ELSE Done([r.d EXCEPT !.peeked = r.val], NoByte, NoByte, <<>>)

\* begin_response_data skipping white space before it looks at the state
BeginResponseDataSkipFirst(d) ==
    LET r == SkipWhitespace(d)
    IN  IF ~r.ok THEN r
        ELSE IF d.state \in {"Initial", "DataExpected", "MessageUnitExpected"}
        THEN Done([r.d EXCEPT !.state = "Data"], NoByte, NoByte, <<>>)
        ELSE Fail(r.d, "InvalidDecodeState", NoByte, <<>>)

BeginResponseData(d) ==
    IF d.state \in {"Initial", "DataExpected", "MessageUnitExpected"}
    THEN LET r == SkipWhitespace(d)
         IN  IF r.ok THEN Done([r.d EXCEPT !.state = "Data"], NoByte, NoByte, <<>>)
             ELSE r
    ELSE Fail(d, "InvalidDecodeState", NoByte, <<>>)

\* end_with without the check that the state is Data
EndWithAnyState(d, byte) ==
    IF byte = 10 THEN Done([d EXCEPT !.state = "End"], NoByte, byte, <<>>)
    ELSE IF byte = 59 THEN Done([d EXCEPT !.state = "MessageUnitExpected"], NoByte, byte, <<>>)
    ELSE IF byte = 44 THEN Done([d EXCEPT !.state = "DataExpected"], NoByte, byte, <<>>)
    ELSE Fail(d, "InvalidDecodeState", byte, <<>>)

\* end_with assigning the state before it rejects the byte
EndWithEager(d, byte) ==
    IF d.state = "Data"
    THEN IF byte = 10 THEN Done([d EXCEPT !.state = "End"], NoByte, byte, <<>>)
         ELSE IF byte = 59
              THEN Done([d EXCEPT !.state = "MessageUnitExpected"], NoByte, byte, <<>>)
         ELSE IF byte = 44
              THEN Done([d EXCEPT !.state = "DataExpected"], NoByte, byte, <<>>)
         ELSE Fail([d EXCEPT !.state = "DataExpected"], "InvalidDecodeState", byte, <<>>)
    ELSE Fail(d, "InvalidDecodeState", byte, <<>>)

EndWith(d, byte) ==
    IF d.state = "Data"
    THEN IF byte = 10 THEN Done([d EXCEPT !.state = "End"], NoByte, byte, <<>>)
         ELSE IF byte = 59
              THEN Done([d EXCEPT !.state = "MessageUnitExpected"], NoByte, byte, <<>>)
         ELSE IF byte = 44
              THEN Done([d EXCEPT !.state = "DataExpected"], NoByte, byte, <<>>)
         ELSE Fail(d, "InvalidDecodeState", byte, <<>>)
    ELSE Fail(d, "InvalidDecodeState", byte, <<>>)

\* is_at_end that never reports the end
IsAtEndNever(d) == FALSE

IsAtEnd(d) == d.state = "End"

\* finish(self): val is the source handed back
\* finish handing the source back in every state
FinishAnyState(d) == Done(d, d.source, NoByte, <<>>)

Finish(d) ==
    IF d.state = "End" THEN Done(d, d.source, NoByte, <<>>)
    ELSE Fail(d, "InvalidDecodeState", NoByte, <<>>)

\* end_with(byte) and, when it succeeded, the value and target of the token
EndToken(d, byte, val, tgt) ==
    LET e == EndWith(d, byte)
    IN  IF e.ok THEN Done(e.d, val, byte, tgt) ELSE Fail(e.d, e.err, byte, tgt)

(***************************************************************************)
(* decode_boolean (src/src/decode/boolean.rs)                              *)
(***************************************************************************)
\* decode_boolean looking at the terminator without taking it
DecodeBooleanPeekEnd(d) ==
    LET r == ReadByte(d)
    IN  IF ~r.ok THEN r
        ELSE IF r.val \in {48, 49}
        THEN LET t == PeekByte(r.d)
             IN  IF ~t.ok THEN t ELSE EndToken(t.d, t.val, r.val = 49, <<>>)
        ELSE Fail(r.d, "Parse", NoByte, <<>>)

DecodeBoolean(d) ==
    LET r == ReadByte(d)
    IN  IF ~r.ok THEN r
        ELSE IF r.val \in {48, 49}
        THEN LET t == ReadByte(r.d)
             IN  IF ~t.ok THEN t ELSE EndToken(t.d, t.val, r.val = 49, <<>>)
        ELSE Fail(r.d, "Parse", NoByte, <<>>)

(***************************************************************************)
(* decode_numeric_integer (src/src/decode/numeric_integer.rs)              *)
(***************************************************************************)
\* the digit sets of digit, hex_digit, octal_digit and binary_digit
IsRadixDigit(b, radix) ==
    CASE radix = 16 -> b \in 65..70 \/ b \in 48..57
      [] radix = 8  -> b \in 48..55
      [] radix = 2  -> b \in 48..49
      [] OTHER      -> b \in 48..57

\* digit(), hex_digit(), octal_digit(), binary_digit()
ReadDigit(d, radix) ==
    LET r == ReadByte(d)
    IN  IF ~r.ok THEN r
        ELSE IF IsRadixDigit(r.val, radix) THEN r
        ELSE Fail(r.d, "Parse", NoByte, <<>>)

\* sign()
ReadSign(d) ==
    LET r == ReadByte(d)
    IN  IF ~r.ok THEN r
        ELSE IF r.val \in {43, 45} THEN r
        ELSE Fail(r.d, "Parse", NoByte, <<>>)

\* the closing loop of each format: digits, then the terminator, then the parse
\* the loop proper: digits are pushed to buf up to the first other byte (or
\* the end of the source); r is the read that ended the loop
RECURSIVE IntegerDigits(_, _, _)
IntegerDigits(d, buf, radix) ==
    LET r == ReadByte(d)
    IN  IF r.ok /\ IsRadixDigit(r.val, radix)
        THEN IntegerDigits(r.d, Append(buf, r.val), radix)
        ELSE [r |-> r, buf |-> buf]

\* after the loop: end_with on the byte that ended it, then from_str_radix
IntegerToken(r, buf, radix, ty) ==
    IF ~r.ok THEN r
    ELSE LET e == EndWith(r.d, r.val)
             p == FromStrRadix(buf, radix, ty)
         IN  IF ~e.ok THEN e
             ELSE IF p.ok THEN Done(e.d, p.val, r.val, <<>>)
             ELSE Fail(e.d, "Parse", r.val, <<>>)

IntegerLoopEnd(s, radix, ty) == IntegerToken(s.r, s.buf, radix, ty)

IntegerLoop(d, buf, radix, ty) == IntegerLoopEnd(IntegerDigits(d, buf, radix), radix, ty)

\* "#H", "#Q", "#B": one mandatory digit of the radix, then the loop
RadixFormat(d, radix, ty) ==
    LET f == ReadDigit(d, radix)
    IN  IF ~f.ok THEN f ELSE IntegerLoop(f.d, <<f.val>>, radix, ty)

\* decode_numeric_integer taking a sign before "#H", "#Q" and "#B" too
DecodeNumericIntegerSignedRadix(d, ty) ==
    LET r == ReadByte(d)
        g == IF r.ok /\ r.val \in {43, 45} THEN ReadByte(r.d) ELSE r
    IN  IF ~g.ok THEN g
        ELSE IF g.val = 35
        THEN LET h == ReadByte(g.d)
             IN  IF ~h.ok THEN h
                 ELSE IF h.val = 72 THEN RadixFormat(h.d, 16, ty)
                 ELSE IF h.val = 81 THEN RadixFormat(h.d, 8, ty)
                 ELSE IF h.val = 66 THEN RadixFormat(h.d, 2, ty)
                 ELSE Fail(h.d, "Parse", NoByte, <<>>)
        ELSE IF g.val \in 48..57
        THEN IntegerLoop(g.d, (IF r.val \in {43, 45} THEN <<r.val>> ELSE <<>>) \o <<g.val>>, 10, ty)
        ELSE Fail(g.d, "Parse", NoByte, <<>>)

DecodeNumericInteger(d, ty) ==
    LET r == ReadByte(d)
    IN  IF ~r.ok THEN r
        ELSE IF r.val \in {43, 45}
        THEN LET f == ReadDigit(r.d, 10)
             IN  IF ~f.ok THEN f ELSE IntegerLoop(f.d, <<r.val, f.val>>, 10, ty)
        ELSE IF r.val = 35
        THEN LET h == ReadByte(r.d)
             IN  IF ~h.ok THEN h
                 ELSE IF h.val = 72 THEN RadixFormat(h.d, 16, ty)
                 ELSE IF h.val = 81 THEN RadixFormat(h.d, 8, ty)
                 ELSE IF h.val = 66 THEN RadixFormat(h.d, 2, ty)
                 ELSE Fail(h.d, "Parse", NoByte, <<>>)
        ELSE IF r.val \in 48..57 THEN IntegerLoop(r.d, <<r.val>>, 10, ty)
        ELSE Fail(r.d, "Parse", NoByte, <<>>)

(***************************************************************************)
(* decode_numeric_float (src/src/decode/numeric_float.rs)                  *)
(***************************************************************************)
\* Ok(value), or Parse for the ParseFloatError, once end_with has succeeded
FloatTokenValue(e, p, byte) ==
    IF ~e.ok THEN e
    ELSE IF p.ok THEN Done(e.d, p.val, byte, <<>>)
    ELSE Fail(e.d, "Parse", byte, <<>>)

\* end_with(byte)?, then T::from_str(&buf)
FloatToken(d, byte, buf, fty) ==
    FloatTokenValue(EndWith(d, byte), FloatFromStr(buf, fty), byte)

\* the digits of the exponent, up to the terminator
RECURSIVE FloatExponentLoop(_, _, _)
FloatExponentLoop(d, buf, fty) ==
    LET r == ReadByte(d)
    IN  IF ~r.ok THEN r
        ELSE IF r.val \in 48..57 THEN FloatExponentLoop(r.d, Append(buf, r.val), fty)
        ELSE FloatToken(r.d, r.val, buf, fty)

\* an exponent whose sign may be left out
FloatExponentOptionalSign(d, buf, fty) ==
    LET r == ReadByte(d)
    IN  IF ~r.ok THEN r
        ELSE IF r.val \in 48..57 THEN FloatExponentLoop(r.d, Append(buf, r.val), fty)
        ELSE IF r.val \in {43, 45}
        THEN LET g == ReadDigit(r.d, 10)
             IN  IF ~g.ok THEN g
                 ELSE FloatExponentLoop(g.d, buf \o <<r.val, g.val>>, fty)
        ELSE Fail(r.d, "Parse", NoByte, <<>>)

\* after 'E': a mandatory sign, a mandatory digit, then the loop
FloatExponent(d, buf, fty) ==
    LET s == ReadSign(d)
    IN  IF ~s.ok THEN s
        ELSE LET g == ReadDigit(s.d, 10)
             IN  IF ~g.ok THEN g
                 ELSE FloatExponentLoop(g.d, buf \o <<s.val, g.val>>, fty)

\* the further digits of the fraction, up to 'E' or the terminator
RECURSIVE FloatFractionLoop(_, _, _)
FloatFractionLoop(d, buf, fty) ==
    LET r == ReadByte(d)
    IN  IF ~r.ok THEN r
        ELSE IF r.val \in 48..57 THEN FloatFractionLoop(r.d, Append(buf, r.val), fty)
        ELSE IF r.val = 69 THEN FloatExponent(r.d, Append(buf, r.val), fty)
        ELSE FloatToken(r.d, r.val, buf, fty)

\* after '.': no digit of the fraction is asked for
FloatFractionOptional(d, buf, fty) == FloatFractionLoop(d, buf, fty)

\* after '.': one mandatory digit of the fraction
FloatFraction(d, buf, fty) ==
    LET r == ReadByte(d)
    IN  IF ~r.ok THEN r
        ELSE IF r.val \in 48..57 THEN FloatFractionLoop(r.d, Append(buf, r.val), fty)
        ELSE Fail(r.d, "Parse", NoByte, <<>>)

\* the further digits of the integer part, up to the mandatory '.'
RECURSIVE FloatIntegerLoop(_, _, _)
FloatIntegerLoop(d, buf, fty) ==
    LET r == ReadByte(d)
    IN  IF ~r.ok THEN r
        ELSE IF r.val \in 48..57 THEN FloatIntegerLoop(r.d, Append(buf, r.val), fty)
        ELSE IF r.val = 46 THEN FloatFraction(r.d, Append(buf, r.val), fty)
        ELSE Fail(r.d, "Parse", NoByte, <<>>)

DecodeNumericFloat(d, fty) ==
    LET r == ReadByte(d)
    IN  IF ~r.ok THEN r
        ELSE IF r.val \in {43, 45}
        THEN LET g == ReadDigit(r.d, 10)
             IN  IF ~g.ok THEN g ELSE FloatIntegerLoop(g.d, <<r.val, g.val>>, fty)
        ELSE IF r.val \in 48..57 THEN FloatIntegerLoop(r.d, <<r.val>>, fty)
        ELSE Fail(r.d, "Parse", NoByte, <<>>)

(***************************************************************************)
(* decode_string (src/src/decode/string.rs).  cap is the capacity of the   *)
(* fmt::Write target: a write beyond it is refused.                        *)
(***************************************************************************)
\* the capacity of a String target, which never refuses a write
Unbounded == 1000000

RECURSIVE StringLoop(_, _, _)
StringLoop(d, tgt, cap) ==
    LET r == ReadByte(d)
    IN  IF ~r.ok THEN Fail(r.d, r.err, NoByte, tgt)
        ELSE IF r.val = 34
        THEN LET q == ReadByte(r.d)
             IN  IF ~q.ok THEN Fail(q.d, q.err, NoByte, tgt)
                 ELSE IF q.val = 34
                 THEN IF Len(tgt) >= cap THEN Fail(q.d, "BufferOverflow", NoByte, tgt)
                      ELSE StringLoop(q.d, Append(tgt, 34), cap)
                 ELSE EndToken(q.d, q.val, NoByte, tgt)
        ELSE IF r.val < 128
        THEN IF Len(tgt) >= cap THEN Fail(r.d, "BufferOverflow", NoByte, tgt)
             ELSE StringLoop(r.d, Append(tgt, r.val), cap)
        ELSE Fail(r.d, "Parse", NoByte, tgt)

\* decode_string without the call of quote()
DecodeStringNoQuote(d, cap) == StringLoop(d, <<>>, cap)

DecodeString(d, cap) ==
    LET r == ReadByte(d)
    IN  IF ~r.ok THEN r
        ELSE IF r.val = 34 THEN StringLoop(r.d, <<>>, cap)
        ELSE Fail(r.d, "Parse", NoByte, <<>>)

(***************************************************************************)
(* decode_characters (src/src/decode/characters.rs): tgt is the text       *)
(* written to the fmt::Write target, cap the capacity of the target.       *)
(***************************************************************************)
\* upper (src/src/decode.rs)
Upper(d) ==
    LET r == ReadByte(d)
    IN  IF ~r.ok THEN r
        ELSE IF r.val \in 65..90 THEN r
        ELSE Fail(r.d, "Parse", NoByte, <<>>)

RECURSIVE CharactersLoop(_, _, _)
CharactersLoop(d, tgt, cap) ==
    LET r == ReadByte(d)
    IN  IF ~r.ok THEN Fail(r.d, r.err, NoByte, tgt)
        ELSE IF r.val \in 65..90 \/ r.val \in 48..57 \/ r.val = 95
        THEN IF Len(tgt) >= cap THEN Fail(r.d, "BufferOverflow", NoByte, tgt)
             ELSE CharactersLoop(r.d, Append(tgt, r.val), cap)
        ELSE EndToken(r.d, r.val, NoByte, tgt)

DecodeCharacters(d, cap) ==
    LET u == Upper(d)
    IN  IF ~u.ok THEN u
        ELSE IF cap < 1 THEN Fail(u.d, "BufferOverflow", NoByte, <<>>)
        ELSE CharactersLoop(u.d, <<u.val>>, cap)

(***************************************************************************)
(* ArrayBuffer<LEN> (src/src/internal.rs): [cap, bytes]                    *)
(***************************************************************************)
ArrayBufferNew(cap) == [cap |-> cap, bytes |-> <<>>]

\* a push_all that copies what fits before it refuses
ArrayBufferPushAllPartial(buf, bytes) ==
    IF Len(buf.bytes) + Len(bytes) <= buf.cap
    THEN [buf |-> [buf EXCEPT !.bytes = buf.bytes \o bytes], ok |-> TRUE]
    ELSE [buf |-> [buf EXCEPT !.bytes =
                       buf.bytes \o SubSeq(bytes, 1, buf.cap - Len(buf.bytes))],
          ok |-> FALSE]

ArrayBufferPush(buf, byte) ==
    IF Len(buf.bytes) < buf.cap
    THEN [buf |-> [buf EXCEPT !.bytes = Append(buf.bytes, byte)], ok |-> TRUE]
    ELSE [buf |-> buf, ok |-> FALSE]

ArrayBufferPushAll(buf, bytes) ==
    IF Len(buf.bytes) + Len(bytes) <= buf.cap
    THEN [buf |-> [buf EXCEPT !.bytes = buf.bytes \o bytes], ok |-> TRUE]
    ELSE [buf |-> buf, ok |-> FALSE]

\* fmt::Write::write_str: push_all of the bytes of the string, ArrayBufferFull
\* mapped to fmt::Error
ArrayBufferWriteStr(buf, s) ==
    LET w == ArrayBufferPushAll(buf, s)
    IN  [buf |-> w.buf, ok |-> w.ok, err |-> IF w.ok THEN "None" ELSE "fmt::Error"]

\* finish: the slice buffer[0..written]
ArrayBufferFinish(buf) == buf.bytes

\* write!(&mut buf, ..): the pieces go to write_str one by one, and the first
\* refused piece ends the formatting with fmt::Error
RECURSIVE ArrayBufferWrite(_, _)
ArrayBufferWrite(buf, pieces) ==
    IF pieces = <<>> THEN [buf |-> buf, ok |-> TRUE]
    ELSE LET w == ArrayBufferPushAll(buf, Head(pieces))
         IN  IF w.ok THEN ArrayBufferWrite(w.buf, Tail(pieces)) ELSE w

(***************************************************************************)
(* decode_arbitrary_block (src/src/decode/arbitrary_block.rs) into a       *)
(* ByteSink target, and decode_arbitrary_ascii                             *)
(* (src/src/decode/arbitrary_ascii.rs) into a fmt::Write target: tgt is    *)
(* what was written, cap the capacity of the target (Unbounded for a Vec   *)
(* or a String).                                                           *)
(***************************************************************************)
\* the scratch buffer of the block length
BlockDigitsLen == 9

\* for _ in 0..digits { buf.push(self.digit()?) }
RECURSIVE BlockDigits(_, _, _)
BlockDigits(d, n, buf) ==
    IF n = 0 THEN Done(d, buf.bytes, NoByte, <<>>)
    ELSE LET g == ReadDigit(d, 10)
         IN  IF ~g.ok THEN g
             ELSE LET p == ArrayBufferPush(buf, g.val)
                  IN  IF ~p.ok THEN Fail(g.d, "BufferOverflow", NoByte, <<>>)
                      ELSE BlockDigits(g.d, n - 1, p.buf)

\* for _ in 0..block_size { target.write_byte(self.read_byte()?) }, then one
\* more byte, the terminator
\* the copy of the data asking the target for room before it reads the byte
RECURSIVE BlockCopyRoomFirst(_, _, _, _)
BlockCopyRoomFirst(d, n, tgt, cap) ==
    IF n > 0 /\ Len(tgt) >= cap THEN Fail(d, "BufferOverflow", NoByte, tgt)
    ELSE LET r == ReadByte(d)
         IN  IF ~r.ok THEN Fail(r.d, r.err, NoByte, tgt)
             ELSE IF n = 0 THEN EndToken(r.d, r.val, NoByte, tgt)
             ELSE BlockCopyRoomFirst(r.d, n - 1, Append(tgt, r.val), cap)

RECURSIVE BlockCopy(_, _, _, _)
BlockCopy(d, n, tgt, cap) ==
    LET r == ReadByte(d)
    IN  IF ~r.ok THEN Fail(r.d, r.err, NoByte, tgt)
        ELSE IF n = 0 THEN EndToken(r.d, r.val, NoByte, tgt)
        ELSE IF Len(tgt) >= cap THEN Fail(r.d, "BufferOverflow", NoByte, tgt)
        ELSE BlockCopy(r.d, n - 1, Append(tgt, r.val), cap)

\* the indefinite format ending at ',' and ';' too
RECURSIVE BlockIndefiniteAnyTerminator(_, _, _)
BlockIndefiniteAnyTerminator(d, tgt, cap) ==
    LET r == ReadByte(d)
    IN  IF ~r.ok THEN Fail(r.d, r.err, NoByte, tgt)
        ELSE IF r.val \in {10, 44, 59} THEN EndToken(r.d, r.val, NoByte, tgt)
        ELSE IF Len(tgt) >= cap THEN Fail(r.d, "BufferOverflow", NoByte, tgt)
        ELSE BlockIndefiniteAnyTerminator(r.d, Append(tgt, r.val), cap)

\* the indefinite format: bytes up to '\n'
RECURSIVE BlockIndefinite(_, _, _)
BlockIndefinite(d, tgt, cap) ==
    LET r == ReadByte(d)
    IN  IF ~r.ok THEN Fail(r.d, r.err, NoByte, tgt)
        ELSE IF r.val = 10 THEN EndToken(r.d, r.val, NoByte, tgt)
        ELSE IF Len(tgt) >= cap THEN Fail(r.d, "BufferOverflow", NoByte, tgt)
        ELSE BlockIndefinite(r.d, Append(tgt, r.val), cap)

\* decode_arbitrary_block reading the data of a definite block up to '\n',
\* as it does for "#0"
DecodeArbitraryBlockToNewline(d, cap) ==
    LET h == ReadByte(d)
    IN  IF ~h.ok THEN h
        ELSE IF h.val # 35 THEN Fail(h.d, "Parse", NoByte, <<>>)
        ELSE LET r == ReadByte(h.d)
             IN  IF ~r.ok THEN r
                 ELSE IF r.val \in 49..57
                 THEN LET g == BlockDigits(r.d, r.val - 48, ArrayBufferNew(BlockDigitsLen))
                      IN  IF ~g.ok THEN g ELSE BlockIndefinite(g.d, <<>>, cap)
                 ELSE IF r.val = 48 THEN BlockIndefinite(r.d, <<>>, cap)
                 ELSE Fail(r.d, "Parse", NoByte, <<>>)

DecodeArbitraryBlock(d, cap) ==
    LET h == ReadByte(d)
    IN  IF ~h.ok THEN h
        ELSE IF h.val # 35 THEN Fail(h.d, "Parse", NoByte, <<>>)
        ELSE LET r == ReadByte(h.d)
             IN  IF ~r.ok THEN r
                 ELSE IF r.val \in 49..57
                 THEN LET g == BlockDigits(r.d, r.val - 48, ArrayBufferNew(BlockDigitsLen))
                      IN  IF ~g.ok THEN g ELSE BlockCopy(g.d, TextNat(g.val, 0), <<>>, cap)
                 ELSE IF r.val = 48 THEN BlockIndefinite(r.d, <<>>, cap)
                 ELSE Fail(r.d, "Parse", NoByte, <<>>)

RECURSIVE DecodeArbitraryAscii(_, _, _)
DecodeArbitraryAscii(d, tgt, cap) ==
    LET r == ReadByte(d)
    IN  IF ~r.ok THEN Fail(r.d, r.err, NoByte, tgt)
        ELSE IF r.val = 10 THEN EndToken(r.d, r.val, NoByte, tgt)
        ELSE IF r.val < 128
        THEN IF Len(tgt) >= cap THEN Fail(r.d, "BufferOverflow", NoByte, tgt)
             ELSE DecodeArbitraryAscii(r.d, Append(tgt, r.val), cap)
        ELSE Fail(r.d, "Parse", NoByte, tgt)

(***************************************************************************)
(* Encoder (src/src/encode.rs)                                             *)
(*                                                                         *)
(* Every operation is an operator from the encoder to a result record      *)
(*   e    the encoder after the call                                       *)
(*   ok   whether the call returned Ok                                     *)
(*   err  the EncodeError kind ("None" when ok); "Panic" is the panic of a *)
(*        failed debug_assert!, which a release build does not contain     *)
(*   st   the state carried by InvalidEncodeState ("None" otherwise)       *)
(***************************************************************************)
EncodeStates == {"Initial", "Header", "Data", "End"}

Builds == {"debug", "release"}

EDone(e) == [e |-> e, ok |-> TRUE, err |-> "None", st |-> "None"]

EFail(e, err) ==
    [e |-> e, ok |-> FALSE, err |-> err,
     st |-> IF err = "InvalidEncodeState" THEN e.state ELSE "None"]

\* <Vec<u8> as ByteSink>::write_bytes
SinkWrite(sink, bytes) == sink \o bytes

\* the assertion kept in a release build
WriteAssertedAlways(e) == e.state \in {"Header", "Data"}

\* debug_assert!(self.state == Header || self.state == Data)
WriteAsserted(e) == build = "release" \/ e.state \in {"Header", "Data"}

WriteByte(e, byte) ==
    IF WriteAsserted(e) THEN EDone([e EXCEPT !.sink = SinkWrite(e.sink, <<byte>>)])
    ELSE EFail(e, "Panic")

WriteBytes(e, bytes) ==
    IF WriteAsserted(e) THEN EDone([e EXCEPT !.sink = SinkWrite(e.sink, bytes)])
    ELSE EFail(e, "Panic")

\* begin_message_unit writing the separator from Initial too
BeginMessageUnitAlwaysSeparator(e) ==
    IF e.state \in {"Initial", "Header", "Data"}
    THEN EDone([e EXCEPT !.sink = SinkWrite(e.sink, <<PROGRAM_MESSAGE_UNIT_SEPARATOR>>),
                         !.state = "Header"])
    ELSE EFail(e, "InvalidEncodeState")

\* begin_message_unit starting a new unit after the message has ended
BeginMessageUnitFromEnd(e) ==
    IF e.state = "Initial" THEN EDone([e EXCEPT !.state = "Header"])
    ELSE EDone([e EXCEPT !.sink = SinkWrite(e.sink, <<PROGRAM_MESSAGE_UNIT_SEPARATOR>>),
                         !.state = "Header"])

BeginMessageUnit(e) ==
    IF e.state = "Initial" THEN EDone([e EXCEPT !.state = "Header"])
    ELSE IF e.state \in {"Header", "Data"}
    THEN EDone([e EXCEPT !.sink = SinkWrite(e.sink, <<PROGRAM_MESSAGE_UNIT_SEPARATOR>>),
                         !.state = "Header"])
    ELSE EFail(e, "InvalidEncodeState")

\* begin_program_data writing the header separator for every item
BeginProgramDataAlwaysSpace(e) ==
    IF e.state \in {"Header", "Data"}
    THEN EDone([e EXCEPT !.sink = SinkWrite(e.sink, <<PROGRAM_HEADER_SEPARATOR>>),
                         !.state = "Data"])
    ELSE EFail(e, "InvalidEncodeState")

BeginProgramData(e) ==
    IF e.state = "Header"
    THEN EDone([e EXCEPT !.sink = SinkWrite(e.sink, <<PROGRAM_HEADER_SEPARATOR>>),
                         !.state = "Data"])
    ELSE IF e.state = "Data"
    THEN EDone([e EXCEPT !.sink = SinkWrite(e.sink, <<PROGRAM_DATA_SEPARATOR>>),
                         !.state = "Data"])
    ELSE EFail(e, "InvalidEncodeState")

\* EncodeSink::terminate_message
TerminateMessage(sink) == SinkWrite(sink, <<PROGRAM_MESSAGE_TERMINATOR>>)

\* end_message terminating again when the message has ended
EndMessageAgain(e) ==
    IF e.state \in {"Header", "Data", "End"}
    THEN EDone([e EXCEPT !.sink = TerminateMessage(e.sink), !.state = "End"])
    ELSE EFail(e, "InvalidEncodeState")

EndMessage(e) ==
    IF e.state \in {"Header", "Data"}
    THEN EDone([e EXCEPT !.sink = TerminateMessage(e.sink), !.state = "End"])
    ELSE IF e.state = "End" THEN EDone(e)
    ELSE EFail(e, "InvalidEncodeState")

\* finish(self): when ok, e.sink is the sink handed back
EncoderFinish(e) == EndMessage(e)

EncodeBoolean(e, value) == WriteByte(e, IF value THEN 49 ELSE 48)

\* the scratch buffer of encode_numeric_integer
IntegerBufferLen == 32

EncodeNumericInteger(e, value) ==
    LET fmt == ArrayBufferWrite(ArrayBufferNew(IntegerBufferLen), FmtInteger(value))
    IN  IF ~fmt.ok /\ build = "debug" THEN EFail(e, "Panic")
        ELSE WriteBytes(e, fmt.buf.bytes)

\* the scratch buffer of encode_numeric_float
FloatBufferLen == 64

\* encode_numeric_float writing INF for both infinities
EncodeNumericFloatOneInfinity(e, value) ==
    IF FloatIsFinite(value)
    THEN LET fmt == ArrayBufferWrite(ArrayBufferNew(FloatBufferLen), FmtUpperExp(value))
         IN  IF ~fmt.ok /\ build = "debug" THEN EFail(e, "Panic")
             ELSE WriteBytes(e, fmt.buf.bytes)
    ELSE IF FloatIsNan(value) THEN WriteBytes(e, <<78, 65, 78>>)
    ELSE WriteBytes(e, <<73, 78, 70>>)

EncodeNumericFloat(e, value) ==
    IF FloatIsFinite(value)
    THEN LET fmt == ArrayBufferWrite(ArrayBufferNew(FloatBufferLen), FmtUpperExp(value))
         IN  IF ~fmt.ok /\ build = "debug" THEN EFail(e, "Panic")
             ELSE WriteBytes(e, fmt.buf.bytes)
    ELSE IF FloatIsNan(value) THEN WriteBytes(e, <<78, 65, 78>>)
    ELSE IF FloatIsSignPositive(value) THEN WriteBytes(e, <<73, 78, 70>>)
    ELSE WriteBytes(e, <<78, 73, 78, 70>>)

\* data.split(|&ch| ch == b'"')
RECURSIVE SplitOn(_, _, _)
SplitOn(data, chunk, sep) ==
    IF data = <<>> THEN <<chunk>>
    ELSE IF Head(data) = sep THEN <<chunk>> \o SplitOn(Tail(data), <<>>, sep)
    ELSE SplitOn(Tail(data), Append(chunk, Head(data)), sep)

RECURSIVE WriteChunks(_, _)
WriteChunks(e, chunks) ==
    IF chunks = <<>> THEN EDone(e)
    ELSE LET w == WriteBytes(e, Head(chunks))
         IN  IF ~w.ok THEN w
             ELSE IF Tail(chunks) # <<>>
             THEN LET q == WriteBytes(w.e, <<34, 34>>)
                  IN  IF ~q.ok THEN q ELSE WriteChunks(q.e, Tail(chunks))
             ELSE w

\* the scratch buffer of encode_definite_block_header
BlockHeaderLen == 11

\* the header of a block with the '0' left where the digit count belongs
EncodeDefiniteBlockHeaderNoCount(e, len) ==
    LET fmt == ArrayBufferWrite(ArrayBufferNew(11), << <<35, 48>>, NatText(len) >>)
    IN  IF ~fmt.ok THEN EFail(e, "BlockSizeOverflow") ELSE WriteBytes(e, fmt.buf.bytes)

\* encode_definite_block_header with room for one more digit
EncodeDefiniteBlockHeaderWide(e, len) ==
    LET fmt == ArrayBufferWrite(ArrayBufferNew(BlockHeaderLen + 1), << <<35, 48>>, NatText(len) >>)
        header == fmt.buf.bytes
    IN  IF ~fmt.ok THEN EFail(e, "BlockSizeOverflow")
        ELSE WriteBytes(e, [header EXCEPT ![2] = 48 + (Len(header) - 2)])

\* write!(&mut fmt, "#0{}", len), then the digit count over the '0'
EncodeDefiniteBlockHeader(e, len) ==
    LET fmt == ArrayBufferWrite(ArrayBufferNew(BlockHeaderLen), << <<35, 48>>, NatText(len) >>)
        header == fmt.buf.bytes
    IN  IF ~fmt.ok THEN EFail(e, "BlockSizeOverflow")
        ELSE WriteBytes(e, [header EXCEPT ![2] = 48 + (Len(header) - 2)])

EncodeDefiniteBlock(e, data) ==
    LET h == EncodeDefiniteBlockHeader(e, Len(data))
    IN  IF ~h.ok THEN h ELSE WriteBytes(h.e, data)

\* encode_string without the doubling of '"'
EncodeStringNoEscape(e, data) ==
    IF \A i \in 1..Len(data) : data[i] < 128
    THEN LET o == WriteByte(e, 34)
         IN  IF ~o.ok THEN o
             ELSE LET c == WriteBytes(o.e, data)
                  IN  IF ~c.ok THEN c ELSE WriteByte(c.e, 34)
    ELSE EFail(e, "NonAsciiString")

\* encode_string writing the opening quote before it looks at the bytes
EncodeStringQuoteFirst(e, data) ==
    LET o == WriteByte(e, 34)
    IN  IF ~o.ok THEN o
        ELSE IF \A i \in 1..Len(data) : data[i] < 128
        THEN LET c == WriteChunks(o.e, SplitOn(data, <<>>, 34))
             IN  IF ~c.ok THEN c ELSE WriteByte(c.e, 34)
        ELSE EFail(o.e, "NonAsciiString")

EncodeString(e, data) ==
    IF \A i \in 1..Len(data) : data[i] < 128
    THEN LET o == WriteByte(e, 34)
         IN  IF ~o.ok THEN o
             ELSE LET c == WriteChunks(o.e, SplitOn(data, <<>>, 34))
                  IN  IF ~c.ok THEN c ELSE WriteByte(c.e, 34)
    ELSE EFail(e, "NonAsciiString")

\* the integer written before begin_program_data is asked
ProgramDataIntegerWriteFirst(e, value) ==
    LET w == EncodeNumericInteger([e EXCEPT !.state = "Data"], value)
        b == BeginProgramData([w.e EXCEPT !.state = e.state])
    IN  IF ~w.ok THEN w ELSE b

\* <u8 .. i128 as ProgramData>::encode (src/src/program_data.rs)
ProgramDataInteger(e, value) ==
    LET b == BeginProgramData(e)
    IN  IF ~b.ok THEN b ELSE EncodeNumericInteger(b.e, value)

(***************************************************************************)
(* The Decoder driven by a caller: any operation in any order, on any      *)
(* source of at most MaxSrc bytes.  finish(self) consumes the decoder.     *)
(***************************************************************************)
\* '\n' ',' ';' ' ' '1' '"' and the tab
SrcBytes == {10, 44, 59, 32, 49, 34, 9}

RECURSIVE SeqsUpTo(_, _)
SeqsUpTo(S, n) ==
    IF n = 0 THEN {<<>>}
    ELSE LET shorter == SeqsUpTo(S, n - 1)
         IN  shorter \cup {Append(q, b) : q \in {x \in shorter : Len(x) = n - 1}, b \in S}

\* a Decoder call: pre is the decode state it was made in
Call(op, arg, pre, r) ==
    [op |-> op, arg |-> arg, pre |-> pre, ok |-> r.ok, err |-> r.err, st |-> r.st,
     val |-> r.val, ew |-> r.ew, tgt |-> r.tgt]

NoCall == [op |-> "new", arg |-> NoByte, pre |-> "None", ok |-> TRUE, err |-> "None",
           st |-> "None", val |-> NoByte, ew |-> NoByte, tgt |-> <<>>]

\* an Encoder call: pre is the encode state it was made in
ECall(op, arg, pre, r) ==
    [op |-> op, arg |-> arg, pre |-> pre, ok |-> r.ok, err |-> r.err, st |-> r.st]

NoECall == [op |-> "new", arg |-> NoByte, pre |-> "None", ok |-> TRUE, err |-> "None",
            st |-> "None"]

NewEncoder == [sink |-> <<>>, state |-> "Initial"]

NoRt == [kind |-> "none"]

DecoderLive == dcall.op # "finish"

DoDecoder(op, arg, r) ==
    /\ DecoderLive
    /\ decoder' = r.d
    /\ dcall' = Call(op, arg, decoder.state, r)
    /\ UNCHANGED <<encoder, ecall, rt, build>>

DecReadByte == DoDecoder("read_byte", NoByte, ReadByte(decoder))

DecPeekByte == DoDecoder("peek_byte", NoByte, PeekByte(decoder))

DecBeginResponseData ==
    DoDecoder("begin_response_data", NoByte, BeginResponseData(decoder))

DecEndWith == \E b \in SrcBytes : DoDecoder("end_with", b, EndWith(decoder, b))

DecIsAtEnd ==
    DoDecoder("is_at_end", NoByte, Done(decoder, IsAtEnd(decoder), NoByte, <<>>))

DecFinish == DoDecoder("finish", NoByte, Finish(decoder))

DecDecodeBoolean == DoDecoder("decode_boolean", NoByte, DecodeBoolean(decoder))

DecDecodeNumericInteger ==
    \E ty \in IntTypes :
        DoDecoder("decode_numeric_integer", NoByte, DecodeNumericInteger(decoder, ty))

DecDecodeString == DoDecoder("decode_string", NoByte, DecodeString(decoder, Unbounded))

Init ==
    /\ decoder \in {NewDecoder(src) : src \in SeqsUpTo(SrcBytes, MaxSrc)}
    /\ dcall = NoCall
    /\ encoder = NewEncoder
    /\ ecall = NoECall
    /\ rt = NoRt
    /\ build = "release"

Next ==
    \/ DecReadByte
    \/ DecPeekByte
    \/ DecBeginResponseData
    \/ DecEndWith
    \/ DecIsAtEnd
    \/ DecFinish
    \/ DecDecodeBoolean
    \/ DecDecodeNumericInteger
    \/ DecDecodeString

Spec == Init /\ [][Next]_vars

(***************************************************************************)
(* The Encoder driven by a caller: any operation in any order, the sink    *)
(* kept to MaxSink bytes.  finish(self) consumes the encoder, and a panic  *)
(* ends the run.                                                           *)
(***************************************************************************)
\* a mnemonic letter and a separator, as payload bytes
PayloadBytes == {65, 59}

\* values of <u8 as ProgramData>::encode
SmallInts == {IntVal(FALSE, FromNat(7)), IntVal(FALSE, FromNat(42))}

EncoderLive == ecall.op # "finish" /\ ecall.err # "Panic"

DoEncoder(op, arg, r) ==
    /\ EncoderLive
    /\ Len(r.e.sink) <= MaxSink
    /\ encoder' = r.e
    /\ ecall' = ECall(op, arg, encoder.state, r)
    /\ UNCHANGED <<decoder, dcall, rt, build>>

EncBeginMessageUnit == DoEncoder("begin_message_unit", NoByte, BeginMessageUnit(encoder))

EncBeginProgramData == DoEncoder("begin_program_data", NoByte, BeginProgramData(encoder))

EncEndMessage == DoEncoder("end_message", NoByte, EndMessage(encoder))

EncFinish == DoEncoder("finish", NoByte, EncoderFinish(encoder))

EncWriteByte == \E b \in PayloadBytes : DoEncoder("write_byte", b, WriteByte(encoder, b))

EncProgramDataInteger ==
    \E v \in SmallInts :
        DoEncoder("encode_integer", NoByte, ProgramDataInteger(encoder, v))

InitEnc ==
    /\ decoder = NewDecoder(<<>>)
    /\ dcall = NoCall
    /\ encoder = NewEncoder
    /\ ecall = NoECall
    /\ rt = NoRt
    /\ build \in Builds

NextEnc ==
    \/ EncBeginMessageUnit
    \/ EncBeginProgramData
    \/ EncEndMessage
    \/ EncFinish
    \/ EncWriteByte
    \/ EncProgramDataInteger

SpecEnc == InitEnc /\ [][NextEnc]_vars

(***************************************************************************)
(* ProgramData and ResponseData (src/src/program_data.rs,                  *)
(* src/src/response_data.rs).  A data type is [k, int]: k is the kind of   *)
(* the value and int the integer type when k = "int".                      *)
(***************************************************************************)
\* the integer types with both a ProgramData and a ResponseData impl
DataIntTypes == {ty \in IntTypes : ty.bits <= 64}

DataType(k, int) == [k |-> k, int |-> int]

DataTypes ==
    {DataType("int", ty) : ty \in DataIntTypes}
        \cup {DataType(k, [signed |-> FALSE, bits |-> 8]) : k \in {"bool", "float", "str", "block"}}

\* <T as ProgramData>::encode: begin_program_data, then the encode function
ProgramDataEncode(e, t, v) ==
    LET b == BeginProgramData(e)
    IN  IF ~b.ok THEN b
        ELSE CASE t.k = "int"   -> EncodeNumericInteger(b.e, v)
               [] t.k = "float" -> EncodeNumericFloat(b.e, v)
               [] t.k = "str"   -> EncodeString(b.e, v)
               [] t.k = "block" -> EncodeDefiniteBlock(b.e, v)
               [] OTHER         -> EncodeBoolean(b.e, v)

\* a pair encoded second item first
ProgramDataTuple2Swapped(e, ta, a, tb, b) ==
    LET x == ProgramDataEncode(e, tb, b)
    IN  IF ~x.ok THEN x ELSE ProgramDataEncode(x.e, ta, a)

\* <(A, B) as ProgramData>::encode
ProgramDataTuple2(e, ta, a, tb, b) ==
    LET x == ProgramDataEncode(e, ta, a)
    IN  IF ~x.ok THEN x ELSE ProgramDataEncode(x.e, tb, b)

\* <ProgramList<T> as ProgramData>::encode
RECURSIVE ProgramDataList(_, _, _)
ProgramDataList(e, t, items) ==
    IF items = <<>> THEN EDone(e)
    ELSE LET x == ProgramDataEncode(e, t, Head(items))
         IN  IF ~x.ok THEN x ELSE ProgramDataList(x.e, t, Tail(items))

\* the decode function of a data type
DecodeData(d, t) ==
    CASE t.k = "int"   -> DecodeNumericInteger(d, t.int)
      [] t.k = "float" -> DecodeNumericFloat(d, "f64")
      [] t.k = "str"   -> DecodeString(d, Unbounded)
      [] t.k = "block" -> DecodeArbitraryBlock(d, Unbounded)
      [] OTHER         -> DecodeBoolean(d)

\* Ok(text), Ok(result): the target of a string or a block is the value
TargetAsValue(r, t) ==
    IF r.ok /\ t.k \in {"str", "block"} THEN [r EXCEPT !.val = r.tgt, !.tgt = <<>>]
    ELSE r

\* <T as ResponseData>::decode: begin_response_data, then the decode
\* function; val is the decoded value
ResponseDataDecode(d, t) ==
    LET b == BeginResponseData(d)
    IN  IF ~b.ok THEN b ELSE TargetAsValue(DecodeData(b.d, t), t)

\* <String as ResponseData>::decode: val is the text
ResponseDataString(d) ==
    LET b == BeginResponseData(d)
    IN  IF ~b.ok THEN b ELSE TargetAsValue(DecodeString(b.d, Unbounded), DataType("str", {}))

\* <u8 .. isize as ResponseData>::decode
ResponseDataInteger(d, ty) ==
    LET b == BeginResponseData(d)
    IN  IF ~b.ok THEN b ELSE DecodeNumericInteger(b.d, ty)

\* Ok((a, b))
Tuple2Value(a, b) == IF ~b.ok THEN b ELSE [b EXCEPT !.val = <<a.val, b.val>>]

\* <(String, T) as ResponseData>::decode for an integer type T: val is the pair
ResponseDataTuple2(d, ty) ==
    LET a == ResponseDataString(d)
    IN  IF ~a.ok THEN a ELSE Tuple2Value(a, ResponseDataInteger(a.d, ty))

\* a list that ends after its first item
ResponseListPushOnce(x, t, result) ==
    IF ~x.ok THEN x ELSE [x EXCEPT !.val = Append(result, x.val)]

\* <ResponseList<T> as ResponseData>::decode: val is the list
RECURSIVE ResponseDataList(_, _, _)
\* result.push(..), then the loop ends when decoder.is_at_end()
ResponseListPush(x, t, result) ==
    IF ~x.ok THEN x
    ELSE IF IsAtEnd(x.d) THEN [x EXCEPT !.val = Append(result, x.val)]
    ELSE ResponseDataList(x.d, t, Append(result, x.val))

ResponseDataList(d, t, result) == ResponseListPush(ResponseDataDecode(d, t), t, result)

(***************************************************************************)
(* Round trips: a value is encoded into a fresh message (begin_message_unit,*)
(* the encode function, end_message), and the bytes of the sink are then   *)
(* decoded as response data (begin_response_data, the decode function of   *)
(* the same type).  rt holds the value and how far the round trip got.     *)
(***************************************************************************)
\* the integer values tried for a type: 0..Dense and -Dense..-1, the
\* Near values at each end of the range, and the powers of ten
IntValues(ty) ==
    LET small == {IntVal(neg, FromNat(n)) : neg \in BOOLEAN, n \in 0..Dense}
        high == {IntVal(FALSE, SubSmall(MaxMag(ty), k)) : k \in 0..Near}
        low == IF ty.signed THEN {IntVal(TRUE, SubSmall(MinMag(ty), k)) : k \in 0..Near}
               ELSE {}
        tens == {IntVal(neg, Pow10(j)) : neg \in BOOLEAN, j \in 0..39}
    IN  {v \in small \cup high \cup low \cup tens : (v.neg => ty.signed) /\ InRange(v, ty)}

\* the significant digits tried: 0, 1 and 9, in the shortest form
Mantissas ==
    {<<0>>} \cup {m \in SeqsUpTo({0, 1, 9}, MaxMant) :
                     Len(m) >= 1 /\ m[1] # 0 /\ m[Len(m)] # 0}

FloatValues ==
    {Finite(neg, m, x) : neg \in BOOLEAN, m \in Mantissas,
                         x \in (-MaxExp..MaxExp) \cup {37, -37}}
        \cup {Infinity(FALSE), Infinity(TRUE), NaN}

\* '"', ',', ';', '\n' and a letter
StrBytes == {34, 44, 59, 10, 65}

StrValues == SeqsUpTo(StrBytes, MaxStr)

\* '\n', ',', ';', '#', '"' and a zero byte
BlockBytes == {10, 44, 59, 35, 34, 0}

\* every block of up to MaxBlock bytes, and blocks of 9 and more equal
\* bytes, whose length takes two digits from 10 on
BlockValues ==
    SeqsUpTo(BlockBytes, MaxBlock)
        \cup {[i \in 1..n |-> b] : n \in 9..(9 + Near), b \in BlockBytes}

\* the integers paired with a string: 0, 42, -42 and the ends of the range
PairInts(ty) ==
    {v \in {IntVal(neg, FromNat(n)) : neg \in BOOLEAN, n \in {0, 42}}
               \cup {IntVal(FALSE, MaxMag(ty)), IntVal(TRUE, MinMag(ty))} :
        (v.neg => ty.signed) /\ InRange(v, ty)}

PairValues(ty) == {<<str, n>> : str \in SeqsUpTo(StrBytes, MaxPairStr), n \in PairInts(ty)}

\* the items of the lists of a data type
ElemValues(t) ==
    CASE t.k = "int"   -> PairInts(t.int)
      [] t.k = "float" -> {Finite(FALSE, <<1, 9>>, -2), Finite(TRUE, <<1>>, 0), Infinity(FALSE)}
      [] t.k = "str"   -> {<<>>, <<34>>, <<65, 44>>, <<10>>}
      [] t.k = "block" -> {<<>>, <<10>>, <<44, 59>>}
      [] OTHER         -> BOOLEAN

\* the non-empty lists of up to MaxList items
ListValues(t) == SeqsUpTo(ElemValues(t), MaxList) \ {<<>>}

\* the header of the command of encode_test
Mnemonic == <<84, 69, 83, 84>>

\* begin_message_unit, then the mnemonic
BeginCommand ==
    LET b == BeginMessageUnit(NewEncoder)
    IN  IF ~b.ok THEN b ELSE WriteBytes(b.e, Mnemonic)

\* the bytes of a message after its mnemonic and the header separator
ProgramDataBytes(sink) == SubSeq(sink, Len(Mnemonic) + 2, Len(sink))

Rt(kind, ty, v, phase) == [kind |-> kind, ty |-> ty, v |-> v, phase |-> phase]

\* begin_message_unit, the encode function, end_message
EncodeMessage(r) ==
    LET b == BeginMessageUnit(NewEncoder)
    IN  IF ~b.ok THEN b
        ELSE IF ~r.ok THEN r
        ELSE EndMessage(r.e)

DoRtEncode(kind, op, r) ==
    /\ rt.kind = kind
    /\ rt.phase = "value"
    /\ encoder' = r.e
    /\ ecall' = ECall(op, NoByte, "Header", r)
    /\ rt' = [rt EXCEPT !.phase = IF r.ok THEN "encoded" ELSE "failed"]
    /\ UNCHANGED <<decoder, dcall, build>>

RtEncodeInteger ==
    DoRtEncode("int", "encode_numeric_integer",
               EncodeMessage(EncodeNumericInteger(BeginMessageUnit(NewEncoder).e, rt.v)))

RtEncodeFloat ==
    DoRtEncode("float", "encode_numeric_float",
               EncodeMessage(EncodeNumericFloat(BeginMessageUnit(NewEncoder).e, rt.v)))

RtEncodeString ==
    DoRtEncode("str", "encode_string",
               EncodeMessage(EncodeString(BeginMessageUnit(NewEncoder).e, rt.v)))

\* Decoder::new on the bytes of the sink, then begin_response_data
BeginDecode == BeginResponseData(NewDecoder(encoder.sink))

DoRtDecode(kind, op, r) ==
    /\ rt.kind = kind
    /\ rt.phase = "encoded"
    /\ decoder' = r.d
    /\ dcall' = Call(op, NoByte, "Data", r)
    /\ rt' = [rt EXCEPT !.phase = "decoded"]
    /\ UNCHANGED <<encoder, ecall, build>>

RtDecodeInteger ==
    DoRtDecode("int", "decode_numeric_integer",
               IF BeginDecode.ok THEN DecodeNumericInteger(BeginDecode.d, rt.ty)
               ELSE BeginDecode)

RtDecodeFloat ==
    DoRtDecode("float", "decode_numeric_float",
               IF BeginDecode.ok THEN DecodeNumericFloat(BeginDecode.d, rt.ty)
               ELSE BeginDecode)

RtDecodeString ==
    DoRtDecode("str", "decode_string",
               IF BeginDecode.ok THEN DecodeString(BeginDecode.d, Unbounded)
               ELSE BeginDecode)

RtEncodeBlock ==
    DoRtEncode("block", "encode_definite_block",
               EncodeMessage(EncodeDefiniteBlock(BeginMessageUnit(NewEncoder).e, rt.v)))

RtDecodeBlock ==
    DoRtDecode("block", "decode_arbitrary_block",
               IF BeginDecode.ok THEN DecodeArbitraryBlock(BeginDecode.d, Unbounded)
               ELSE BeginDecode)

\* ("..", n).encode(encoder) in a command
RtEncodePair ==
    DoRtEncode("pair", "encode_tuple",
               EncodeMessage(ProgramDataTuple2(BeginCommand.e, DataType("str", rt.ty), rt.v[1],
                                               DataType("int", rt.ty), rt.v[2])))

\* <(String, T)>::decode on the program data of the message
RtDecodePair ==
    DoRtDecode("pair", "decode_tuple",
               ResponseDataTuple2(NewDecoder(ProgramDataBytes(encoder.sink)), rt.ty))

\* ProgramList(&items).encode(encoder) in a command
RtEncodeList ==
    DoRtEncode("list", "encode_list",
               EncodeMessage(ProgramDataList(BeginCommand.e, rt.ty, rt.v)))

\* <ResponseList<T>>::decode on the program data of the message
RtDecodeList ==
    DoRtDecode("list", "decode_list",
               ResponseDataList(NewDecoder(ProgramDataBytes(encoder.sink)), rt.ty, <<>>))

InitRT ==
    /\ decoder = NewDecoder(<<>>)
    /\ dcall = NoCall
    /\ encoder = NewEncoder
    /\ ecall = NoECall
    /\ build \in Builds
    /\ \/ rt \in UNION {{Rt("int", ty, v, "value") : v \in IntValues(ty)} : ty \in IntTypes}
       \/ rt \in {Rt("float", ty, v, "value") : ty \in FloatTypes, v \in FloatValues}
       \/ rt \in {Rt("str", "str", v, "value") : v \in StrValues}
       \/ rt \in {Rt("block", "block", v, "value") : v \in BlockValues}
       \/ rt \in UNION {{Rt("pair", ty, v, "value") : v \in PairValues(ty)} : ty \in DataIntTypes}
       \/ rt \in UNION {{Rt("list", t, v, "value") : v \in ListValues(t)} : t \in DataTypes}

NextRT ==
    \/ RtEncodeInteger
    \/ RtEncodeFloat
    \/ RtEncodeString
    \/ RtDecodeInteger
    \/ RtDecodeFloat
    \/ RtDecodeString
    \/ RtEncodeBlock
    \/ RtDecodeBlock
    \/ RtEncodePair
    \/ RtDecodePair
    \/ RtEncodeList
    \/ RtDecodeList

SpecRT == InitRT /\ [][NextRT]_vars

(***************************************************************************)
(* Tokens: a source is decoded as response data of one type, token by      *)
(* token (begin_response_data, then the decode function).  rt holds the    *)
(* type and tok, the unread bytes when the current token began.            *)
(***************************************************************************)
\* the bytes not yet read: the peeked byte, then the source
Unread(d) == (IF d.peeked # NoByte THEN <<d.peeked>> ELSE <<>>) \o d.source

\* the text of a magnitude
MagText(mag) == IF mag = <<>> THEN <<48>> ELSE DecDigits(mag)

\* the magnitudes around T::MAX and |T::MIN|, and zero
BoundaryMags(ty) ==
    {<<>>} \cup {SubSmall(MaxMag(ty), k) : k \in 0..Near}
           \cup {MulAdd(MaxMag(ty), 1, k + 1) : k \in 0..Near}

\* the decimal literals at the ends of the range of every integer type, and
\* "256,1\n": a literal out of the range of u8 with a second item after it
IntLiterals ==
    UNION {{sign \o MagText(mag) \o <<10>> : sign \in {<<>>, <<43>>, <<45>>},
                                             mag \in BoundaryMags(ty)} : ty \in IntTypes}
        \cup {<<50, 53, 54, 44, 49, 10>>}

\* '+', '-', '#', 'H', 'Q', 'B', '1', '8' and '\n'
IntGrammarBytes == {43, 45, 35, 72, 81, 66, 49, 56, 10}

\* what may stand before the digits, in and out of the grammar
IntPrefixes ==
    {<<>>, <<43>>, <<45>>, <<35, 72>>, <<35, 81>>, <<35, 66>>, <<45, 35, 72>>, <<43, 35, 66>>,
     <<35, 72, 45>>, <<35, 81, 43>>, <<49, 35, 72>>, <<35>>, <<35, 104>>}

\* what may stand after a token: nothing, a terminator, 'x', a second token
TokenEnds == {<<>>, <<10>>, <<44>>, <<59>>, <<120>>, <<44, 49, 10>>}

IntTokens ==
    SeqsUpTo(IntGrammarBytes, MaxTok)
        \cup {p \o r \o e : p \in IntPrefixes, r \in SeqsUpTo({49, 56, 66}, MaxRun), e \in TokenEnds}

\* runs of the digit '1'
DigitRuns == {[i \in 1..n |-> 49] : n \in 0..MaxRun}

\* the parts of a float, each present or not
FloatTokens ==
    SeqsUpTo({45, 46, 69, 49, 10}, MaxTok)
        \cup {sign \o int \o dot \o frac \o ex \o esign \o edigits \o e :
                sign \in {<<>>, <<43>>, <<45>>}, int \in DigitRuns, dot \in {<<>>, <<46>>},
                frac \in DigitRuns, ex \in {<<>>, <<69>>}, esign \in {<<>>, <<43>>, <<45>>},
                edigits \in DigitRuns, e \in {<<>>, <<10>>, <<44>>, <<120>>}}

\* '"', '\n', ',' and a byte that is not ASCII
StringTokens == SeqsUpTo({34, 10, 44, 200}, MaxStrTok)

\* arbitrary ASCII data: '\n', ',', 'A' and a byte that is not ASCII
AsciiTokens == SeqsUpTo({10, 44, 65, 200}, MaxTok + 1)

\* booleans: '0', '1', the terminators, ';' and 'x'
BoolTokens == SeqsUpTo({48, 49, 10, 44, 59, 120}, MaxTok)

\* characters: 'A', '1', '_', 'a', '!', the terminators and ';'
CharsTokens == SeqsUpTo({65, 49, 95, 97, 33, 10, 44, 59}, MaxTok)

\* the headers of a block, in and out of the grammar
BlockHeads ==
    {<<>>, <<35>>, <<49>>, <<35, 97>>, <<35, 49>>, <<35, 49, 65>>, <<35, 48>>,
     <<35, 49, 48>>, <<35, 49, 49>>, <<35, 49, 50>>, <<35, 49, 51>>,
     <<35, 50, 48, 48>>, <<35, 50, 48, 49>>, <<35, 50, 48, 50>>, <<35, 50, 49>>}

\* a header, then up to MaxBlock + 1 bytes of '\n', ',' and ';'; and a block
\* of ten bytes, short of a byte, whole, and with a terminator
BlockTokens ==
    {h \o b : h \in BlockHeads, b \in SeqsUpTo({10, 44, 59, 65}, MaxBlock + 1)}
        \cup {<<35, 50, 49, 48>> \o [i \in 1..n |-> 10] \o e :
                n \in 9..10, e \in {<<>>, <<10>>, <<44>>}}

Tok(kind, ty, tok) == [kind |-> kind, ty |-> ty, tok |-> tok]

\* begin_response_data by a caller that stops at the first error
DoTokBegin(r) ==
    /\ dcall.ok
    /\ dcall.op # "begin_response_data"
    /\ decoder' = r.d
    /\ dcall' = Call("begin_response_data", NoByte, decoder.state, r)
    /\ rt' = [rt EXCEPT !.tok = Unread(r.d)]
    /\ UNCHANGED <<encoder, ecall, build>>

TokBegin == DoTokBegin(BeginResponseData(decoder))

\* the decode function of the type, once begin_response_data has succeeded
DoTokDecode(kind, op, r) ==
    /\ rt.kind = kind
    /\ dcall.op = "begin_response_data"
    /\ dcall.ok
    /\ decoder' = r.d
    /\ dcall' = Call(op, NoByte, decoder.state, r)
    /\ UNCHANGED <<encoder, ecall, rt, build>>

TokDecodeInteger ==
    DoTokDecode("int", "decode_numeric_integer", DecodeNumericInteger(decoder, rt.ty))

TokDecodeFloat ==
    DoTokDecode("float", "decode_numeric_float", DecodeNumericFloat(decoder, rt.ty))

TokDecodeString == DoTokDecode("str", "decode_string", DecodeString(decoder, Unbounded))

TokDecodeBlock ==
    DoTokDecode("block", "decode_arbitrary_block", DecodeArbitraryBlock(decoder, Unbounded))

TokDecodeAscii ==
    DoTokDecode("ascii", "decode_arbitrary_ascii", DecodeArbitraryAscii(decoder, <<>>, Unbounded))

TokDecodeBoolean == DoTokDecode("bool", "decode_boolean", DecodeBoolean(decoder))

TokDecodeCharacters ==
    DoTokDecode("chars", "decode_characters", DecodeCharacters(decoder, Unbounded))

\* the integer types the sources of the grammar are decoded as
GrammarIntTypes == {ty \in IntTypes : ty.bits = 8}

InitTok ==
    /\ \/ rt \in {Tok("int", ty, src) : ty \in IntTypes, src \in IntLiterals}
       \/ rt \in {Tok("int", ty, src) : ty \in GrammarIntTypes, src \in IntTokens}
       \/ rt \in {Tok("float", ty, src) : ty \in FloatTypes, src \in FloatTokens}
       \/ rt \in {Tok("str", "str", src) : src \in StringTokens}
       \/ rt \in {Tok("block", "block", src) : src \in BlockTokens}
       \/ rt \in {Tok("ascii", "ascii", src) : src \in AsciiTokens}
       \/ rt \in {Tok("bool", "bool", src) : src \in BoolTokens}
       \/ rt \in {Tok("chars", "chars", src) : src \in CharsTokens}
    /\ decoder = NewDecoder(rt.tok)
    /\ dcall = NoCall
    /\ encoder = NewEncoder
    /\ ecall = NoECall
    /\ build = "release"

NextTok ==
    \/ TokBegin
    \/ TokDecodeInteger
    \/ TokDecodeFloat
    \/ TokDecodeString
    \/ TokDecodeBlock
    \/ TokDecodeAscii
    \/ TokDecodeBoolean
    \/ TokDecodeCharacters

SpecTok == InitTok /\ [][NextTok]_vars

(***************************************************************************)
(* Properties of the Decoder state machine (Spec)                          *)
(***************************************************************************)
NewDataStates == {"Initial", "DataExpected", "MessageUnitExpected"}

\* C1: the decode state changes only Initial/DataExpected/MessageUnitExpected
\* -> Data by begin_response_data and Data -> DataExpected /
\* MessageUnitExpected / End by end_with; End is never left, and End is
\* entered only by end_with given '\n'.
C1_DecodeStateTransitions ==
    [][ /\ decoder'.state # decoder.state =>
              \/ /\ dcall'.op = "begin_response_data"
                 /\ decoder.state \in NewDataStates
                 /\ decoder'.state = "Data"
              \/ /\ dcall'.ew # NoByte
                 /\ decoder.state = "Data"
                 /\ decoder'.state \in {"DataExpected", "MessageUnitExpected", "End"}
        /\ decoder.state = "End" => decoder'.state = "End"
        /\ (decoder'.state = "End" /\ decoder.state # "End") => dcall'.ew = 10
      ]_vars

\* a value decoded in Data whose terminator '\n' ended the message
C1_Witness ==
    /\ dcall.op = "decode_boolean"
    /\ dcall.pre = "Data"
    /\ dcall.ew = 10
    /\ decoder.state = "End"

HasNonWhitespace(d) ==
    \/ d.peeked # NoByte /\ ~IsWhitespace(d.peeked)
    \/ \E i \in 1..Len(d.source) : ~IsWhitespace(d.source[i])

\* C2: begin_response_data in Data or End fails with InvalidDecodeState
\* carrying that state and changes nothing of the decoder; in Initial,
\* DataExpected or MessageUnitExpected with a non-whitespace byte available
\* it succeeds and the state becomes Data.
C2_BeginResponseData ==
    [][ dcall'.op = "begin_response_data" =>
          /\ decoder.state \in {"Data", "End"} =>
                /\ ~dcall'.ok
                /\ dcall'.err = "InvalidDecodeState"
                /\ dcall'.st = decoder.state
                /\ decoder' = decoder
          /\ (decoder.state \in NewDataStates /\ HasNonWhitespace(decoder)) =>
                /\ dcall'.ok
                /\ decoder'.state = "Data"
      ]_vars

\* begin_response_data refused after the end of the message, a byte still peeked
C2_Witness ==
    /\ dcall.op = "begin_response_data"
    /\ dcall.err = "InvalidDecodeState"
    /\ dcall.st = "End"
    /\ decoder.peeked # NoByte

\* C3: end_with(b) in Data sets End for '\n', MessageUnitExpected for ';',
\* DataExpected for ','; any other byte is an error and the state stays Data;
\* in a state other than Data it fails with InvalidDecodeState and the state
\* is unchanged.
C3_EndWith ==
    [][ dcall'.op = "end_with" =>
          LET b == dcall'.arg
          IN  /\ (decoder.state = "Data" /\ b = 10) =>
                    dcall'.ok /\ decoder'.state = "End"
              /\ (decoder.state = "Data" /\ b = 59) =>
                    dcall'.ok /\ decoder'.state = "MessageUnitExpected"
              /\ (decoder.state = "Data" /\ b = 44) =>
                    dcall'.ok /\ decoder'.state = "DataExpected"
              /\ (decoder.state = "Data" /\ b \notin {10, 59, 44}) =>
                    ~dcall'.ok /\ decoder'.state = "Data"
              /\ decoder.state # "Data" =>
                    /\ dcall'.err = "InvalidDecodeState"
                    /\ decoder'.state = decoder.state
      ]_vars

\* end_with given a byte that is no terminator, in Data
C3_Witness ==
    /\ dcall.op = "end_with"
    /\ dcall.pre = "Data"
    /\ dcall.arg = 49
    /\ ~dcall.ok
    /\ decoder.state = "Data"

(***************************************************************************)
(* Properties of the Encoder state machine (SpecEnc)                       *)
(***************************************************************************)
\* C4: begin_message_unit from Initial moves to Header and writes nothing;
\* from Header or Data it writes exactly one ';' and moves to Header; from
\* End it fails with InvalidEncodeState(End).
C4_BeginMessageUnit ==
    [][ ecall'.op = "begin_message_unit" =>
          /\ encoder.state = "Initial" =>
                ecall'.ok /\ encoder'.state = "Header" /\ encoder'.sink = encoder.sink
          /\ encoder.state \in {"Header", "Data"} =>
                /\ ecall'.ok
                /\ encoder'.state = "Header"
                /\ encoder'.sink = encoder.sink \o <<59>>
          /\ encoder.state = "End" =>
                ~ecall'.ok /\ ecall'.err = "InvalidEncodeState" /\ ecall'.st = "End"
      ]_vars

\* a second message unit begun after the data of the first
C4_Witness ==
    /\ ecall.op = "begin_message_unit"
    /\ ecall.pre = "Data"
    /\ ecall.ok
    /\ encoder.state = "Header"

\* C5: begin_program_data from Header writes exactly one ' ' and moves to
\* Data; from Data it writes exactly one ',' and stays in Data; from Initial
\* or End it fails with InvalidEncodeState carrying the current state.
C5_BeginProgramData ==
    [][ ecall'.op = "begin_program_data" =>
          /\ encoder.state = "Header" =>
                /\ ecall'.ok
                /\ encoder'.state = "Data"
                /\ encoder'.sink = encoder.sink \o <<32>>
          /\ encoder.state = "Data" =>
                /\ ecall'.ok
                /\ encoder'.state = "Data"
                /\ encoder'.sink = encoder.sink \o <<44>>
          /\ encoder.state \in {"Initial", "End"} =>
                /\ ~ecall'.ok
                /\ ecall'.err = "InvalidEncodeState"
                /\ ecall'.st = encoder.state
      ]_vars

\* a second data item begun
C5_Witness ==
    /\ ecall.op = "begin_program_data"
    /\ ecall.pre = "Data"
    /\ ecall.ok
    /\ encoder.state = "Data"

\* C6: end_message from Header or Data writes '\n' exactly once and moves to
\* End; from End it succeeds and writes nothing; from Initial it fails with
\* InvalidEncodeState.  finish does the same and hands back the sink only on
\* success, so finish right after end_message writes no second terminator:
\* the output ends with the one end_message wrote.
C6_EndMessageFinish ==
    [][ ecall'.op \in {"end_message", "finish"} =>
          /\ encoder.state \in {"Header", "Data"} =>
                /\ ecall'.ok
                /\ encoder'.state = "End"
                /\ encoder'.sink = encoder.sink \o <<10>>
          /\ encoder.state = "End" =>
                ecall'.ok /\ encoder' = encoder
          /\ encoder.state = "Initial" =>
                ~ecall'.ok /\ ecall'.err = "InvalidEncodeState"
          /\ (ecall.op = "end_message" /\ ecall.pre \in {"Header", "Data"}
                  /\ ecall'.op = "finish") =>
                /\ ecall'.ok
                /\ encoder'.sink = encoder.sink
                /\ encoder'.sink[Len(encoder'.sink)] = 10
      ]_vars

\* finish after end_message
C6_Witness ==
    /\ ecall.op = "finish"
    /\ ecall.pre = "End"
    /\ ecall.ok
    /\ Len(encoder.sink) > 1

\* C7: an Encoder operation that fails with InvalidEncodeState has written
\* no byte to the sink and has left the encoder state unchanged.
C7_InvalidEncodeStateFrame ==
    [][ ecall'.err = "InvalidEncodeState" => encoder' = encoder ]_vars

\* program data encoded before any message unit was begun
C7_Witness ==
    /\ ecall.op = "encode_integer"
    /\ ecall.pre = "Initial"
    /\ ecall.err = "InvalidEncodeState"
    /\ encoder.sink = <<>>

(***************************************************************************)
(* Properties of the round trips (SpecRT)                                  *)
(***************************************************************************)
\* C8: for every integer type and every value v of it, decoding as that
\* type the bytes encode_numeric_integer(v) wrote, followed by the message
\* terminator, succeeds, yields v and leaves the decoder at End.
C8_IntegerRoundTrip ==
    rt.kind = "int" =>
        /\ rt.phase # "failed"
        /\ rt.phase = "decoded" =>
               dcall.ok /\ dcall.val = rt.v /\ decoder.state = "End"

\* C9 as stated: for every finite or infinite float v, decode_numeric_float
\* on the bytes encode_numeric_float(v) wrote, followed by the message
\* terminator, succeeds and yields a value equal to v.
C9_FloatRoundTrip ==
    (rt.kind = "float" /\ ~FloatIsNan(rt.v)) =>
        /\ rt.phase # "failed"
        /\ rt.phase = "decoded" => dcall.ok /\ FloatEq(dcall.val, rt.v)

\* the floats whose "{:E}" text has a fraction and a signed exponent
HasFractionAndSignedExponent(v) ==
    FloatIsFinite(v) /\ Len(v.digits) >= 2 /\ v.exp < 0

\* C9, amended: encode_numeric_float always succeeds, and decoding what it
\* wrote yields a value equal to v, with the decoder at End, exactly when v
\* is finite, has two or more significant digits and a negative decimal
\* exponent; for every other value (one significant digit, an exponent of
\* zero or more, INF, NINF, NAN) the decoder returns Parse.
C9_FloatRoundTripAmended ==
    rt.kind = "float" =>
        /\ rt.phase # "failed"
        /\ rt.phase = "decoded" =>
               IF HasFractionAndSignedExponent(rt.v)
               THEN dcall.ok /\ FloatEq(dcall.val, rt.v) /\ decoder.state = "End"
               ELSE ~dcall.ok /\ dcall.err = "Parse"

C9_Witness ==
    /\ rt.kind = "float"
    /\ rt.phase = "decoded"
    /\ rt.v.neg
    /\ Len(rt.v.digits) = MaxMant
    /\ dcall.ok
    /\ FloatEq(dcall.val, rt.v)

\* C10: for every ASCII string s, with '"', ',', ';' or '\n' in it, with
\* '"' at either end, or empty, decode_string on the bytes encode_string(s)
\* wrote, followed by the message terminator, yields exactly s and leaves
\* the decoder at End.
C10_StringRoundTrip ==
    rt.kind = "str" =>
        /\ rt.phase # "failed"
        /\ rt.phase = "decoded" =>
               dcall.ok /\ dcall.tgt = rt.v /\ decoder.state = "End"

C10_Witness ==
    /\ rt.kind = "str"
    /\ rt.phase = "decoded"
    /\ Len(rt.v) >= 2
    /\ rt.v[1] = 34
    /\ rt.v[Len(rt.v)] = 34
    /\ dcall.tgt = rt.v
    /\ decoder.state = "End"

\* C11: for every byte sequence d (any byte values, '\n', ',', ';', '#' and
\* '"' included, and the empty sequence), decode_arbitrary_block on the
\* bytes encode_definite_block(d) wrote, followed by the message terminator,
\* yields exactly d and leaves the decoder at End.
C11_BlockRoundTrip ==
    rt.kind = "block" =>
        /\ rt.phase # "failed"
        /\ rt.phase = "decoded" =>
               dcall.ok /\ dcall.tgt = rt.v /\ decoder.state = "End"

C11_Witness ==
    /\ rt.kind = "block"
    /\ rt.phase = "decoded"
    /\ Len(rt.v) >= 10
    /\ rt.v[1] = 10
    /\ dcall.tgt = rt.v
    /\ decoder.state = "End"

\* C12: the program data the Encoder writes for a (string, integer) pair,
\* from after the header separator through the message terminator, decoded
\* as a tuple of the same shape, gives back the pair and leaves the decoder
\* at End.
C12_TupleRoundTrip ==
    rt.kind = "pair" =>
        /\ rt.phase # "failed"
        /\ rt.phase = "decoded" =>
               dcall.ok /\ dcall.val = rt.v /\ decoder.state = "End"

C12_Witness ==
    /\ rt.kind = "pair"
    /\ rt.phase = "decoded"
    /\ rt.v[1] = <<34>>
    /\ rt.v[2] = IntVal(TRUE, FromNat(42))
    /\ dcall.val = rt.v
    /\ decoder.state = "End"

\* C13 as stated: for every non-empty homogeneous list, the comma-separated
\* items the Encoder writes for a ProgramList, from after the header
\* separator through the message terminator, decode through ResponseList of
\* the same element type to the same sequence, the decoder ending at End.
C13_ListRoundTrip ==
    rt.kind = "list" =>
        /\ rt.phase # "failed"
        /\ rt.phase = "decoded" =>
               dcall.ok /\ dcall.val = rt.v /\ decoder.state = "End"

\* the lists whose items all decode: any list of booleans, integers, strings
\* or blocks, and the lists of floats whose every item has a fraction and a
\* signed exponent
AllItemsDecode(t, items) ==
    t.k = "float" => \A i \in 1..Len(items) : HasFractionAndSignedExponent(items[i])

\* C13, amended: encoding the list always succeeds; a non-empty list of
\* booleans, integers of up to 64 bits, strings or blocks decodes through
\* ResponseList to the same sequence, the end of the list being the message
\* terminator (the decoder is at End); a list of floats does so only when
\* the text of every item has a fraction and a negative exponent, and is
\* rejected with Parse otherwise.
C13_ListRoundTripAmended ==
    rt.kind = "list" =>
        /\ rt.phase # "failed"
        /\ rt.phase = "decoded" =>
               IF AllItemsDecode(rt.ty, rt.v)
               THEN dcall.ok /\ dcall.val = rt.v /\ decoder.state = "End"
               ELSE ~dcall.ok /\ dcall.err = "Parse"

C13_Witness ==
    /\ rt.kind = "list"
    /\ rt.phase = "decoded"
    /\ rt.ty.k = "str"
    /\ Len(rt.v) = MaxList
    /\ rt.v[1] = <<65, 44>>
    /\ dcall.val = rt.v
    /\ decoder.state = "End"

(***************************************************************************)
(* Properties of the decode functions (SpecTok)                            *)
(***************************************************************************)
\* the bytes the decoder has read since the token began
Consumed == SubSeq(rt.tok, 1, Len(rt.tok) - Len(Unread(decoder)))

\* '\n', ',' and ';'
Terminators == {10, 44, 59}

\* a token without its last byte, and without its sign
Body(c) == SubSeq(c, 1, Len(c) - 1)
Unsigned(b) == IF b # <<>> /\ Head(b) \in {43, 45} THEN Tail(b) ELSE b

\* optional sign, one or more decimal digits, a terminator
IsDecimalForm(c) ==
    /\ Len(c) >= 2
    /\ c[Len(c)] \in Terminators
    /\ Unsigned(Body(c)) # <<>>
    /\ \A i \in 1..Len(Unsigned(Body(c))) : Unsigned(Body(c))[i] \in 48..57

\* the number a run of decimal digits writes
RECURSIVE MagOfDigits(_, _)
MagOfDigits(digits, acc) ==
    IF digits = <<>> THEN acc
    ELSE MagOfDigits(Tail(digits), MulAdd(acc, 10, Head(digits) - 48))

LiteralValue(c) == IntVal(Head(c) = 45, MagOfDigits(Unsigned(Body(c)), <<>>))

\* C14: decoding a decimal literal whose value is outside the range of the
\* target integer type fails with Parse, and so does a literal with a '-'
\* sign decoded into an unsigned type; a literal that decodes yields its own
\* value, never a wrapped or truncated one.
C14_IntegerOverflow ==
    (rt.kind = "int" /\ dcall.op = "decode_numeric_integer" /\ IsDecimalForm(Consumed)) =>
        /\ dcall.ok => dcall.val = LiteralValue(Consumed) /\ InRange(dcall.val, rt.ty)
        /\ ~InRange(LiteralValue(Consumed), rt.ty) => ~dcall.ok /\ dcall.err = "Parse"
        /\ (Head(Consumed) = 45 /\ ~rt.ty.signed) => ~dcall.ok /\ dcall.err = "Parse"

C14_Witness ==
    /\ rt.kind = "int"
    /\ dcall.op = "decode_numeric_integer"
    /\ rt.ty = [signed |-> FALSE, bits |-> 8]
    /\ Consumed = <<50, 53, 54, 10>>
    /\ dcall.err = "Parse"

\* "#", the letter of the radix, one or more digits of the radix, a terminator
IsRadixForm(c, letter, digits) ==
    /\ Len(c) >= 4
    /\ c[1] = 35
    /\ c[2] = letter
    /\ c[Len(c)] \in Terminators
    /\ \A i \in 3..(Len(c) - 1) : c[i] \in digits

IsIntegerForm(c) ==
    \/ IsDecimalForm(c)
    \/ IsRadixForm(c, 72, (48..57) \cup (65..70))
    \/ IsRadixForm(c, 81, 48..55)
    \/ IsRadixForm(c, 66, 48..49)

\* C15: decode_numeric_integer succeeds only when it has read an optional
\* sign and decimal digits, or "#H", "#Q" or "#B" and digits of that radix,
\* and then a terminator; a sign before or inside a '#' form, a '#' form
\* after decimal digits and an empty run of digits are errors; and a token
\* of one of the forms fails only with Parse, for its value.
C15_IntegerGrammar ==
    (rt.kind = "int" /\ dcall.op = "decode_numeric_integer") =>
        /\ dcall.ok => IsIntegerForm(Consumed)
        /\ (~dcall.ok /\ IsIntegerForm(Consumed)) => dcall.err = "Parse"

C15_Witness ==
    /\ rt.kind = "int"
    /\ dcall.op = "decode_numeric_integer"
    /\ Consumed = <<35, 72, 66, 49, 10>>
    /\ dcall.ok
    /\ dcall.val = IntVal(FALSE, FromNat(177))

\* the bytes s[a..b] are decimal digits
DigitsAt(s, a, b) == \A k \in a..b : s[k] \in 48..57

\* one or more digits, '.', one or more digits, and then nothing or 'E', a
\* sign and one or more digits
IsUnsignedFloat(b) ==
    \E i \in 2..(Len(b) - 1) : \E j \in (i + 1)..Len(b) :
        /\ b[i] = 46
        /\ DigitsAt(b, 1, i - 1)
        /\ DigitsAt(b, i + 1, j)
        /\ \/ j = Len(b)
           \/ /\ Len(b) >= j + 3
              /\ b[j + 1] = 69
              /\ b[j + 2] \in {43, 45}
              /\ DigitsAt(b, j + 3, Len(b))

\* optional sign, the digits of IsUnsignedFloat, a terminator
IsFloatForm(c) ==
    /\ Len(c) >= 2
    /\ c[Len(c)] \in Terminators
    /\ IsUnsignedFloat(Unsigned(Body(c)))

StateAfter(byte) ==
    IF byte = 10 THEN "End"
    ELSE IF byte = 59 THEN "MessageUnitExpected"
    ELSE "DataExpected"

\* the text of a string between its quotes: every '"' written twice
RECURSIVE QuotesDoubled(_)
QuotesDoubled(s) ==
    IF s = <<>> THEN <<>>
    ELSE (IF Head(s) = 34 THEN <<34, 34>> ELSE <<Head(s)>>) \o QuotesDoubled(Tail(s))

IsAscii(s) == \A i \in 1..Len(s) : s[i] < 128

Last(s) == s[Len(s)]

\* C17: decode_string fails with Parse when the first byte is not '"'; when
\* it succeeds, the bytes it read are '"', the ASCII target with every '"'
\* doubled ('\n', ',' and ';' between the quotes being data), the closing
\* '"' and one terminator, which sets the state; a byte after the closing
\* '"' that is neither '"' nor a terminator is refused as a terminator; and
\* a byte that is not ASCII between the quotes fails with Parse.
C17_StringGrammar ==
    (rt.kind = "str" /\ dcall.op = "decode_string") =>
        /\ (rt.tok # <<>> /\ Head(rt.tok) # 34) =>
               ~dcall.ok /\ dcall.err = "Parse" /\ Consumed = <<Head(rt.tok)>>
        /\ dcall.ok =>
               /\ IsAscii(dcall.tgt)
               /\ Consumed = <<34>> \o QuotesDoubled(dcall.tgt) \o <<34, Last(Consumed)>>
               /\ Last(Consumed) \in Terminators
               /\ decoder.state = StateAfter(Last(Consumed))
        /\ (~dcall.ok /\ dcall.err = "InvalidDecodeState") =>
               /\ Consumed = <<34>> \o QuotesDoubled(dcall.tgt) \o <<34, Last(Consumed)>>
               /\ Last(Consumed) \notin Terminators \cup {34}
        /\ (Consumed # <<>> /\ Head(Consumed) = 34 /\ ~dcall.ok /\ dcall.err = "Parse") =>
               /\ Consumed = <<34>> \o QuotesDoubled(dcall.tgt) \o <<Last(Consumed)>>
               /\ Last(Consumed) >= 128
        /\ (Len(Consumed) >= 2 /\ Head(Consumed) = 34 /\ Last(Consumed) >= 128
              /\ Consumed = <<34>> \o QuotesDoubled(dcall.tgt) \o <<Last(Consumed)>>) =>
               ~dcall.ok /\ dcall.err = "Parse"

C17_Witness ==
    /\ rt.kind = "str"
    /\ dcall.op = "decode_string"
    /\ Consumed = <<34, 10, 34, 34, 34, 44>>
    /\ dcall.ok
    /\ dcall.tgt = <<10, 34>>
    /\ decoder.state = "DataExpected"

\* '#', a digit d in 1..9, d decimal digits
HasDefiniteHeader(c) ==
    /\ Len(c) >= 2
    /\ c[1] = 35
    /\ c[2] \in 49..57
    /\ Len(c) >= 2 + (c[2] - 48)
    /\ DigitsAt(c, 3, 2 + (c[2] - 48))

\* the bytes of the header and the length L it declares
HeaderSize(c) == 2 + (c[2] - 48)
DeclaredLen(c) == TextNat(SubSeq(c, 3, HeaderSize(c)), 0)

\* the bytes of the header, the data and the one byte after the data
BlockSize(c) == HeaderSize(c) + DeclaredLen(c) + 1

\* the data: the L bytes after the header, or as many as there are
BlockData(c) ==
    SubSeq(c, HeaderSize(c) + 1,
           IF Len(c) < HeaderSize(c) + DeclaredLen(c) THEN Len(c)
           ELSE HeaderSize(c) + DeclaredLen(c))

\* C18: for a definite block '#' d L, decode_arbitrary_block copies the L
\* bytes after the header to the target whatever they are, reads one more
\* byte and applies it as the terminator, and reads nothing after it; the
\* state is still Data when the source ends in the data or the byte after
\* the data is no terminator; L = 0 yields an empty block.
C18_DefiniteBlock ==
    (rt.kind = "block" /\ dcall.op = "decode_arbitrary_block" /\ HasDefiniteHeader(rt.tok)) =>
        /\ dcall.tgt = BlockData(rt.tok)
        /\ Len(rt.tok) >= BlockSize(rt.tok) =>
               /\ Len(Consumed) = BlockSize(rt.tok)
               /\ Last(Consumed) \in Terminators =>
                      dcall.ok /\ decoder.state = StateAfter(Last(Consumed))
               /\ Last(Consumed) \notin Terminators =>
                      ~dcall.ok /\ dcall.err = "InvalidDecodeState" /\ decoder.state = "Data"
        /\ Len(rt.tok) < BlockSize(rt.tok) =>
               ~dcall.ok /\ dcall.err = "UnexpectedEnd" /\ decoder.state = "Data"

C18_Witness ==
    /\ rt.kind = "block"
    /\ dcall.op = "decode_arbitrary_block"
    /\ rt.tok = <<35, 49, 50, 10, 44, 59, 10>>
    /\ Consumed = <<35, 49, 50, 10, 44, 59>>
    /\ dcall.ok
    /\ dcall.tgt = <<10, 44>>
    /\ decoder.state = "MessageUnitExpected"

\* the bytes after an opening '"' end before the string does: every '"' so
\* far is doubled, or the last byte is a '"' with no byte after it
RECURSIVE OpenString(_)
OpenString(s) ==
    IF s = <<>> THEN TRUE
    ELSE IF Head(s) = 34
    THEN IF Len(s) = 1 THEN TRUE
         ELSE IF s[2] = 34 THEN OpenString(Tail(Tail(s)))
         ELSE FALSE
    ELSE IF Head(s) < 128 THEN OpenString(Tail(s))
    ELSE FALSE

\* a block that ends in its header, in its data or before the byte after
\* its data, or an indefinite block with no '\n'
TruncatedBlock(c) ==
    \/ c = <<35>>
    \/ /\ Len(c) >= 2 /\ c[1] = 35 /\ c[2] \in 49..57
       /\ Len(c) < 2 + (c[2] - 48)
       /\ DigitsAt(c, 3, Len(c))
    \/ HasDefiniteHeader(c) /\ Len(c) < BlockSize(c)
    \/ /\ Len(c) >= 2 /\ c[1] = 35 /\ c[2] = 48
       /\ \A i \in 3..Len(c) : c[i] # 10

\* what may follow a number that ends early: the digits it still needs and
\* a terminator
IntegerCompletions == {<<10>>, <<49, 10>>, <<72, 49, 10>>}
FloatCompletions == {<<10>>, <<49, 10>>, <<46, 49, 10>>, <<49, 46, 49, 10>>, <<43, 49, 10>>}

\* the source ends before the token and its terminator are complete
Truncated(kind, c) ==
    IF kind = "str" THEN c # <<>> /\ Head(c) = 34 /\ OpenString(Tail(c))
    ELSE IF kind = "block" THEN TruncatedBlock(c)
    ELSE IF kind = "ascii" THEN \A i \in 1..Len(c) : c[i] < 128 /\ c[i] # 10
    ELSE IF kind = "int" THEN \E more \in IntegerCompletions : IsIntegerForm(c \o more)
    ELSE \E more \in FloatCompletions : IsFloatForm(c \o more)

DecodeOps ==
    {"decode_numeric_integer", "decode_numeric_float", "decode_string",
     "decode_arbitrary_block", "decode_arbitrary_ascii"}

HasNewline(s) == \E k \in 1..Len(s) : s[k] = 10

\* the index of the first '\n' of s
FirstNewline(s) == CHOOSE k \in 1..Len(s) : s[k] = 10 /\ \A j \in 1..(k - 1) : s[j] # 10

\* the bytes of s before its first '\n'
BeforeNewline(s) == SubSeq(s, 1, FirstNewline(s) - 1)

\* the data of a token: what follows "#0", or all of arbitrary ASCII data
IndefiniteData(kind, c) == IF kind = "block" THEN SubSeq(c, 3, Len(c)) ELSE c

IsIndefinite(kind, c) ==
    \/ kind = "block" /\ Len(c) >= 2 /\ c[1] = 35 /\ c[2] = 48
    \/ kind = "ascii"

\* C20: an indefinite block ("#0...") and arbitrary ASCII data end at the
\* first '\n': the target is the bytes before it (',' and ';' among them),
\* the '\n' is not copied, the decoder is at End, and no byte after the
\* '\n' has been read.
C20_EndsAtFirstNewline ==
    (dcall.op \in {"decode_arbitrary_block", "decode_arbitrary_ascii"}
        /\ IsIndefinite(rt.kind, rt.tok)
        /\ HasNewline(IndefiniteData(rt.kind, rt.tok))
        /\ (rt.kind = "ascii" => IsAscii(BeforeNewline(rt.tok)))) =>
        /\ dcall.ok
        /\ dcall.tgt = BeforeNewline(IndefiniteData(rt.kind, rt.tok))
        /\ decoder.state = "End"
        /\ Last(Consumed) = 10
        /\ Len(Consumed) = Len(rt.tok) - Len(IndefiniteData(rt.kind, rt.tok))
                             + FirstNewline(IndefiniteData(rt.kind, rt.tok))

C20_Witness ==
    /\ rt.kind = "block"
    /\ dcall.op = "decode_arbitrary_block"
    /\ rt.tok = <<35, 48, 44, 59, 10, 10>>
    /\ dcall.ok
    /\ dcall.tgt = <<44, 59>>
    /\ decoder.state = "End"
    /\ Unread(decoder) = <<10>>

(***************************************************************************)
(* Properties of the Decoder's bytes and end (Spec)                        *)
(***************************************************************************)
\* C21: read_byte returns the first byte not read yet and removes exactly
\* that byte, so the bytes read are the source's bytes in order, none
\* skipped or repeated; peek_byte returns the byte the next read_byte will
\* return and removes none; a peek_byte after a peek_byte returns the same
\* byte and takes nothing more from the source, and a peek_byte takes at
\* most one byte from it.
C21_PeekRead ==
    [][ /\ dcall'.op = "read_byte" =>
              IF Unread(decoder) = <<>>
              THEN ~dcall'.ok /\ dcall'.err = "UnexpectedEnd" /\ decoder' = decoder
              ELSE /\ dcall'.ok
                   /\ dcall'.val = Head(Unread(decoder))
                   /\ Unread(decoder') = Tail(Unread(decoder))
                   /\ decoder'.peeked = NoByte
        /\ dcall'.op = "peek_byte" =>
              IF Unread(decoder) = <<>>
              THEN ~dcall'.ok /\ dcall'.err = "UnexpectedEnd" /\ decoder' = decoder
              ELSE /\ dcall'.ok
                   /\ dcall'.val = Head(Unread(decoder))
                   /\ Unread(decoder') = Unread(decoder)
                   /\ decoder'.peeked = dcall'.val
                   /\ Len(decoder.source) - Len(decoder'.source) \in {0, 1}
                   /\ decoder.peeked # NoByte => decoder' = decoder
        /\ dcall'.op \in {"read_byte", "peek_byte"} => decoder'.state = decoder.state
      ]_vars

\* read_byte has returned the byte a peek_byte had taken from the source
C21_Witness ==
    /\ dcall.op = "read_byte"
    /\ dcall.ok
    /\ dcall.val = 49
    /\ decoder.peeked = NoByte
    /\ Len(decoder.source) = MaxSrc - 1

\* C22: finish returns the source exactly when the state is End, and in
\* every other state fails with InvalidDecodeState carrying that state;
\* is_at_end returns true exactly when the state is End.
C22_FinishIsAtEnd ==
    /\ dcall.op = "finish" =>
          IF dcall.pre = "End"
          THEN dcall.ok /\ dcall.val = decoder.source
          ELSE /\ ~dcall.ok
               /\ dcall.err = "InvalidDecodeState"
               /\ dcall.st = dcall.pre
    /\ dcall.op = "is_at_end" =>
          /\ dcall.ok
          /\ dcall.val = (dcall.pre = "End")
          /\ decoder.state = dcall.pre

\* finish at End with bytes of a next message left in the source
C22_Witness ==
    /\ dcall.op = "finish"
    /\ dcall.ok
    /\ dcall.pre = "End"
    /\ Len(dcall.val) > 0

(***************************************************************************)
(* Messages of commands (src/src/lib.rs, Command::encode), the program     *)
(* data of a command being absent, one Option<u8> or a tuple of them.      *)
(* rt.cmds are the commands, rt.done of them are encoded, rt.fin says that *)
(* finish was called.                                                      *)
(***************************************************************************)
\* the largest tuple with a ProgramData impl
MaxTuple == 4

U8 == [signed |-> FALSE, bits |-> 8]

None == [some |-> FALSE, n |-> 0]
Some(n) == [some |-> TRUE, n |-> n]

\* <Option<T> as ProgramData>::encode writing a separator for None too
ProgramDataOptionSeparator(e, o) ==
    IF o.some THEN ProgramDataEncode(e, DataType("int", U8), IntVal(FALSE, FromNat(o.n)))
    ELSE BeginProgramData(e)

\* <Option<T> as ProgramData>::encode
ProgramDataOption(e, o) ==
    IF o.some THEN ProgramDataEncode(e, DataType("int", U8), IntVal(FALSE, FromNat(o.n)))
    ELSE EDone(e)

\* <(A, B) as ProgramData>::encode, and those of (A, B, C) and (A, B, C, D):
\* every member in turn, the first error returned
RECURSIVE ProgramDataTuple(_, _)
ProgramDataTuple(e, members) ==
    IF members = <<>> THEN EDone(e)
    ELSE LET x == ProgramDataOption(e, Head(members))
         IN  IF ~x.ok THEN x ELSE ProgramDataTuple(x.e, Tail(members))

Cmd(mnemonic, has, members) == [mnemonic |-> mnemonic, has |-> has, members |-> members]

\* Command::encode without begin_message_unit after the first unit
CommandEncodeNoSeparator(e, cmd) ==
    LET b == IF e.state = "Initial" THEN BeginMessageUnit(e)
             ELSE EDone([e EXCEPT !.state = "Header"])
        w == WriteBytes(b.e, cmd.mnemonic)
    IN  IF ~b.ok THEN b
        ELSE IF ~w.ok THEN w
        ELSE IF cmd.has THEN ProgramDataTuple(w.e, cmd.members)
        ELSE w

\* Command::encode
CommandEncode(e, cmd) ==
    LET b == BeginMessageUnit(e)
        w == WriteBytes(b.e, cmd.mnemonic)
    IN  IF ~b.ok THEN b
        ELSE IF ~w.ok THEN w
        ELSE IF cmd.has THEN ProgramDataTuple(w.e, cmd.members)
        ELSE w

Mnemonics == {<<65>>, <<66, 67>>}
Members == {None, Some(1), Some(22)}

RECURSIVE TuplesUpTo(_)
TuplesUpTo(n) ==
    IF n = 0 THEN {<<>>}
    ELSE TuplesUpTo(n - 1)
            \cup {Append(t, m) : t \in {x \in TuplesUpTo(n - 1) : Len(x) = n - 1}, m \in Members}

\* every command with no program data, with one Option<u8>, or with a tuple of
\* two to MaxTuple of them
Commands ==
    {Cmd(mn, FALSE, <<>>) : mn \in Mnemonics}
        \cup {Cmd(mn, TRUE, t) : mn \in Mnemonics, t \in TuplesUpTo(MaxTuple) \ {<<>>}}

\* the commands of the messages of several units
FewCommands ==
    {Cmd(<<65>>, FALSE, <<>>), Cmd(<<66, 67>>, TRUE, <<Some(1)>>),
     Cmd(<<65>>, TRUE, <<None, Some(22)>>), Cmd(<<66, 67>>, TRUE, <<None>>)}

Msg(cmds, done, fin) == [kind |-> "msg", cmds |-> cmds, done |-> done, fin |-> fin]

DoMsg(op, r, done, fin) ==
    /\ ecall.ok
    /\ encoder' = r.e
    /\ ecall' = ECall(op, NoByte, encoder.state, r)
    /\ rt' = Msg(rt.cmds, done, fin)
    /\ UNCHANGED <<decoder, dcall, build>>

MsgCommand ==
    /\ ~rt.fin
    /\ rt.done < Len(rt.cmds)
    /\ DoMsg("command_encode", CommandEncode(encoder, rt.cmds[rt.done + 1]), rt.done + 1, FALSE)

MsgFinish ==
    /\ ~rt.fin
    /\ rt.done = Len(rt.cmds)
    /\ DoMsg("finish", EncoderFinish(encoder), rt.done, TRUE)

InitMsg ==
    /\ \/ rt \in {Msg(<<c>>, 0, FALSE) : c \in Commands}
       \/ rt \in {Msg(cs, 0, FALSE) : cs \in {x \in SeqsUpTo(FewCommands, MaxCmds) : Len(x) >= 2}}
    /\ decoder = NewDecoder(<<>>)
    /\ dcall = NoCall
    /\ encoder = NewEncoder
    /\ ecall = NoECall
    /\ build \in Builds

NextMsg == MsgCommand \/ MsgFinish

SpecMsg == InitMsg /\ [][NextMsg]_vars

\* the members of a tuple that are not None
RECURSIVE PresentMembers(_)
PresentMembers(members) ==
    IF members = <<>> THEN <<>>
    ELSE (IF Head(members).some THEN <<Head(members)>> ELSE <<>>)
             \o PresentMembers(Tail(members))

\* the texts of items, each after the separator sep, the first after first
RECURSIVE ItemsText(_, _, _)
ItemsText(items, first, sep) ==
    IF items = <<>> THEN <<>>
    ELSE <<first>> \o NatText(Head(items).n) \o ItemsText(Tail(items), sep, sep)

\* the bytes of one message unit
UnitText(cmd) ==
    cmd.mnemonic \o (IF cmd.has THEN ItemsText(PresentMembers(cmd.members), 32, 44) ELSE <<>>)

\* the bytes of units, each after sep, the first after nothing
RECURSIVE UnitsText(_, _)
UnitsText(cmds, first) ==
    IF cmds = <<>> THEN <<>>
    ELSE (IF first THEN <<>> ELSE <<59>>) \o UnitText(Head(cmds)) \o UnitsText(Tail(cmds), FALSE)

\* C23: a tuple is encoded as its members in order, the first item of the
\* message unit after exactly one ' ' and every later item after exactly
\* one ','; a member that is None emits nothing, neither bytes nor a
\* separator, and leaves the state as it was, at any position.
C23_TupleOrderAndNone ==
    (rt.kind = "msg" /\ rt.done = 1 /\ ~rt.fin /\ rt.cmds[1].has) =>
        /\ ecall.ok
        /\ encoder.sink = rt.cmds[1].mnemonic
                            \o ItemsText(PresentMembers(rt.cmds[1].members), 32, 44)
        /\ encoder.state = IF PresentMembers(rt.cmds[1].members) = <<>> THEN "Header"
                           ELSE "Data"

\* a tuple of four with None first and in the middle
C23_Witness ==
    /\ rt.kind = "msg"
    /\ rt.done = 1
    /\ rt.cmds[1].members = <<None, Some(22), None, Some(1)>>
    /\ encoder.sink = <<65, 32, 50, 50, 44, 49>>
    /\ encoder.state = "Data"

\* C24: after n >= 1 commands and finish the sink holds the units in order,
\* each the mnemonic and then its program data if it has any, with exactly
\* one ';' between two units, none before the first, and exactly one '\n'
\* at the end.
C24_CommandSequence ==
    (rt.kind = "msg" /\ rt.done >= 1) =>
        /\ ecall.ok
        /\ encoder.sink = UnitsText(SubSeq(rt.cmds, 1, rt.done), TRUE)
                            \o (IF rt.fin THEN <<10>> ELSE <<>>)
        /\ rt.fin => encoder.state = "End"

\* three units, the first without program data
C24_Witness ==
    /\ rt.kind = "msg"
    /\ rt.fin
    /\ encoder.sink = <<65, 59, 66, 67, 32, 49, 59, 65, 32, 50, 50, 10>>

(***************************************************************************)
(* The encode functions called on one value (src/src/encode.rs): after     *)
(* begin_message_unit, and after begin_program_data or not.  rt.v is the   *)
(* value, rt.ty its type.                                                  *)
(***************************************************************************)
\* u8::is_ascii_alphabetic, is_ascii_alphanumeric
IsAsciiAlphabetic(b) == b \in 65..90 \/ b \in 97..122
IsAsciiAlphanumeric(b) == IsAsciiAlphabetic(b) \/ b \in 48..57

\* is_program_mnemonic (src/src/utils.rs)
IsProgramMnemonic(bytes) ==
    /\ bytes # <<>>
    /\ IsAsciiAlphabetic(Head(bytes))
    /\ \A i \in 2..Len(bytes) : IsAsciiAlphanumeric(bytes[i]) \/ bytes[i] = 95

EncodeCharacters(e, value) ==
    IF IsProgramMnemonic(value) THEN WriteBytes(e, value)
    ELSE EFail(e, "InvalidCharacterData")

\* <ProgramChars as ProgramData>::encode
ProgramCharsEncode(e, value) ==
    LET b == BeginProgramData(e)
    IN  IF ~b.ok THEN b ELSE WriteBytes(b.e, value)

\* <T: CharacterProgramData as ProgramData>::encode, program_mnemonic()
\* returning value
CharacterProgramDataEncode(e, value) ==
    LET b == BeginProgramData(e)
    IN  IF ~b.ok THEN b
        ELSE IF build = "debug" /\ ~IsProgramMnemonic(value) THEN EFail(b.e, "Panic")
        ELSE WriteBytes(b.e, value)

RECURSIVE TenTo(_)
TenTo(k) == IF k = 0 THEN 1 ELSE 10 * TenTo(k - 1)

\* block lengths: 0, the least and the greatest length of 1 to 9 digits, and
\* lengths of 10 digits
BlockLens ==
    {0, 2147483647} \cup {TenTo(k) : k \in 1..9} \cup {TenTo(k) - 1 : k \in 1..9}

\* '"', 'A', '\n' and a byte that is not ASCII
EncStrings == SeqsUpTo({34, 65, 10, 200}, MaxStr)

\* 'A', 'z', '1', '_', '!' and a byte that is not ASCII
CharTexts == SeqsUpTo({65, 122, 49, 95, 33, 200}, MaxChars)

\* the floats of the round trips, and a NaN with its sign bit set
EncFloats == FloatValues \cup {[kind |-> "nan", neg |-> TRUE, digits |-> <<>>, exp |-> 0]}

Val(kind, ty, v) == [kind |-> kind, ty |-> ty, v |-> v]

ValBeginMessageUnit ==
    /\ ecall.op = "new"
    /\ encoder' = BeginMessageUnit(encoder).e
    /\ ecall' = ECall("begin_message_unit", NoByte, encoder.state, BeginMessageUnit(encoder))
    /\ UNCHANGED <<decoder, dcall, rt, build>>

ValBeginProgramData ==
    /\ ecall.op = "begin_message_unit"
    /\ rt.kind \notin {"program_chars", "character_program_data"}
    /\ encoder' = BeginProgramData(encoder).e
    /\ ecall' = ECall("begin_program_data", NoByte, encoder.state, BeginProgramData(encoder))
    /\ UNCHANGED <<decoder, dcall, rt, build>>

DoVal(kind, r) ==
    /\ rt.kind = kind
    /\ ecall.op \in {"begin_message_unit", "begin_program_data"}
    /\ encoder' = r.e
    /\ ecall' = ECall(kind, NoByte, encoder.state, r)
    /\ UNCHANGED <<decoder, dcall, rt, build>>

ValEncodeDefiniteBlockHeader ==
    DoVal("encode_definite_block_header", EncodeDefiniteBlockHeader(encoder, rt.v))

ValEncodeString == DoVal("encode_string", EncodeString(encoder, rt.v))

ValEncodeCharacters == DoVal("encode_characters", EncodeCharacters(encoder, rt.v))

ValProgramChars == DoVal("program_chars", ProgramCharsEncode(encoder, rt.v))

ValCharacterProgramData ==
    DoVal("character_program_data", CharacterProgramDataEncode(encoder, rt.v))

ValEncodeNumericFloat == DoVal("encode_numeric_float", EncodeNumericFloat(encoder, rt.v))

ValEncodeNumericInteger == DoVal("encode_numeric_integer", EncodeNumericInteger(encoder, rt.v))

InitVal ==
    /\ \/ rt \in {Val("encode_definite_block_header", "usize", len) : len \in BlockLens}
       \/ rt \in {Val("encode_string", "str", v) : v \in EncStrings}
       \/ rt \in {Val(k, "str", v) :
                    k \in {"encode_characters", "program_chars", "character_program_data"},
                    v \in CharTexts}
       \/ rt \in {Val("encode_numeric_float", fty, v) : fty \in FloatTypes, v \in EncFloats}
       \/ rt \in UNION {{Val("encode_numeric_integer", ty, v) : v \in IntValues(ty)} :
                           ty \in IntTypes}
    /\ decoder = NewDecoder(<<>>)
    /\ dcall = NoCall
    /\ encoder = NewEncoder
    /\ ecall = NoECall
    /\ build \in Builds

NextVal ==
    \/ ValBeginMessageUnit
    \/ ValBeginProgramData
    \/ ValEncodeDefiniteBlockHeader
    \/ ValEncodeString
    \/ ValEncodeCharacters
    \/ ValProgramChars
    \/ ValCharacterProgramData
    \/ ValEncodeNumericFloat
    \/ ValEncodeNumericInteger

SpecVal == InitVal /\ [][NextVal]_vars

\* the sink when the encode function was called: the header separator when
\* begin_program_data came first
Before == IF ecall.pre = "Data" THEN <<32>> ELSE <<>>

\* what the encode function added to the sink
Written == SubSeq(encoder.sink, Len(Before) + 1, Len(encoder.sink))

RECURSIVE NumDigits(_)
NumDigits(n) == IF n < 10 THEN 1 ELSE 1 + NumDigits(n \div 10)

\* C25: encode_definite_block_header(len) writes '#', the digit d that
\* counts the decimal digits of len (1 to 9), and len in d decimal digits
\* with no leading zero ("#10" for 0); for a len of more than 9 digits it
\* fails with BlockSizeOverflow and writes nothing.
C25_BlockHeader ==
    (rt.kind = "encode_definite_block_header" /\ ecall.op = rt.kind) =>
        IF NumDigits(rt.v) <= 9
        THEN /\ ecall.ok
             /\ SubSeq(encoder.sink, 1, Len(Before)) = Before
             /\ Len(Written) = 2 + NumDigits(rt.v)
             /\ Written[1] = 35
             /\ Written[2] = 48 + NumDigits(rt.v)
             /\ DigitsAt(Written, 3, Len(Written))
             /\ TextNat(SubSeq(Written, 3, Len(Written)), 0) = rt.v
             /\ Written[3] # 48 \/ rt.v = 0
        ELSE /\ ~ecall.ok
             /\ ecall.err = "BlockSizeOverflow"
             /\ encoder.sink = Before

\* the greatest length of nine digits
C25_Witness ==
    /\ rt.kind = "encode_definite_block_header"
    /\ ecall.op = rt.kind
    /\ rt.v = 999999999
    /\ Written = <<35, 57, 57, 57, 57, 57, 57, 57, 57, 57, 57>>

\* C26: encode_string of an ASCII string writes '"', the bytes of the
\* string with every '"' doubled and every other byte as it is, and '"';
\* for a string with a byte that is not ASCII it fails with NonAsciiString
\* and writes nothing, not even the opening quote.
C26_EncodeString ==
    (rt.kind = "encode_string" /\ ecall.op = rt.kind) =>
        IF IsAscii(rt.v)
        THEN ecall.ok /\ encoder.sink = Before \o <<34>> \o QuotesDoubled(rt.v) \o <<34>>
        ELSE ~ecall.ok /\ ecall.err = "NonAsciiString" /\ encoder.sink = Before

\* a string of a quote, a letter and '\n'
C26_Witness ==
    /\ rt.kind = "encode_string"
    /\ ecall.op = rt.kind
    /\ rt.v = <<34, 65, 10>>
    /\ Written = <<34, 34, 34, 65, 10, 34>>

CharacterKinds == {"encode_characters", "program_chars", "character_program_data"}

\* C27: character program data reaches the sink only when it is a program
\* mnemonic (not empty, first byte ASCII alphabetic, every later byte ASCII
\* alphanumeric or '_'); any other text fails with InvalidCharacterData and
\* none of its bytes is written; this for encode_characters, for
\* ProgramChars and for a CharacterProgramData type.
C27_CharactersValidated ==
    (rt.kind \in CharacterKinds /\ ecall.op = rt.kind) =>
        IF IsProgramMnemonic(rt.v)
        THEN ecall.ok /\ encoder.sink \in {Before \o rt.v, Before \o <<32>> \o rt.v}
        ELSE /\ ~ecall.ok
             /\ ecall.err = "InvalidCharacterData"
             /\ encoder.sink \in {Before, Before \o <<32>>}

\* the text of a float after the separator is made of these bytes only:
\* digits, '-', '.' and 'E'
ExponentialBytes == (48..57) \cup {45, 46, 69}

CountOf(s, b) == Cardinality({i \in 1..Len(s) : s[i] = b})

\* C28: encode_numeric_float writes NAN for a NaN, INF for the positive
\* and NINF for the negative infinity, and for a finite value a text in
\* exponential notation with one uppercase 'E'; every value is of exactly
\* one of the four cases.
C28_EncodeFloat ==
    (rt.kind = "encode_numeric_float" /\ ecall.op = rt.kind) =>
        /\ ecall.ok
        /\ encoder.sink = Before \o Written
        /\ Cardinality({c \in {"finite", "nan", "inf+", "inf-"} :
                \/ c = "finite" /\ FloatIsFinite(rt.v)
                \/ c = "nan" /\ FloatIsNan(rt.v)
                \/ c = "inf+" /\ ~FloatIsFinite(rt.v) /\ ~FloatIsNan(rt.v) /\ ~rt.v.neg
                \/ c = "inf-" /\ ~FloatIsFinite(rt.v) /\ ~FloatIsNan(rt.v) /\ rt.v.neg}) = 1
        /\ FloatIsNan(rt.v) => Written = <<78, 65, 78>>
        /\ (rt.v.kind = "inf" /\ ~rt.v.neg) => Written = <<73, 78, 70>>
        /\ (rt.v.kind = "inf" /\ rt.v.neg) => Written = <<78, 73, 78, 70>>
        /\ FloatIsFinite(rt.v) =>
              /\ \A i \in 1..Len(Written) : Written[i] \in ExponentialBytes
              /\ CountOf(Written, 69) = 1
              /\ Written[IF rt.v.neg THEN 2 ELSE 1] \in 48..57
              /\ Written[Len(Written)] \in 48..57

\* negative infinity
C28_Witness ==
    /\ rt.kind = "encode_numeric_float"
    /\ ecall.op = rt.kind
    /\ rt.v = Infinity(TRUE)
    /\ encoder.sink = <<32, 78, 73, 78, 70>>

(***************************************************************************)
(* InvalidDecodeState and the bytes of the source (SpecTok)                *)
(***************************************************************************)
AllDecodeOps == DecodeOps \cup {"decode_boolean", "decode_characters"}

\* C29: a decode function called in the Data state, right after a
\* begin_response_data that succeeded, never fails with InvalidDecodeState,
\* whatever the bytes of the source are: a byte that is no terminator after
\* a well-formed value ("10\n" as a boolean, "A!" as characters) is a Parse
\* error.
C29_InvalidStateOnlyOnSequencing ==
    (dcall.op \in AllDecodeOps /\ dcall.pre = "Data") =>
        (dcall.ok \/ dcall.err # "InvalidDecodeState")

\* C30: for every integer type of 8 to 128 bits and every value of it the
\* scratch buffer of encode_numeric_integer holds the whole decimal text,
\* and the bytes written are that text: the sign and the digits.
C30_IntegerBufferFits ==
    (rt.kind = "encode_numeric_integer" /\ ecall.op = rt.kind) =>
        /\ ecall.ok
        /\ Written = (IF rt.v.neg THEN <<45>> ELSE <<>>) \o MagText(rt.v.mag)

(***************************************************************************)
(* White space before data items (Spec)                                    *)
(***************************************************************************)
\* the bytes begin_response_data may skip
ResponseWhitespace == (0..9) \cup (11..32)

\* s without its longest leading run of white space
RECURSIVE StripWhitespace(_)
StripWhitespace(s) ==
    IF s # <<>> /\ Head(s) \in ResponseWhitespace THEN StripWhitespace(Tail(s)) ELSE s

\* the bytes a step takes from the unread bytes
Taken(before, after) == SubSeq(before, 1, Len(before) - Len(after))

BeginStates == {"Initial", "DataExpected", "MessageUnitExpected"}

\* C31: a begin_response_data that succeeds has taken exactly the longest
\* leading run of white space (0x00-0x09, 0x0B-0x20, never 0x0A) and holds
\* the byte after it as the peeked byte, which the next read_byte returns;
\* it does so at the start and after ',' and ';' alike, and succeeds there
\* whenever a byte follows the white space; a decode_boolean or
\* decode_numeric_integer that succeeds has taken no white space.
C31_WhitespaceSkipped ==
    [][ /\ (dcall'.op = "begin_response_data" /\ dcall'.ok) =>
              /\ dcall'.pre \in BeginStates
              /\ Unread(decoder') = StripWhitespace(Unread(decoder))
              /\ Unread(decoder') # <<>>
              /\ decoder'.peeked = Head(Unread(decoder'))
              /\ decoder'.peeked \notin ResponseWhitespace
              /\ decoder'.state = "Data"
        /\ (dcall'.op = "begin_response_data" /\ decoder.state \in BeginStates) =>
              (dcall'.ok <=> StripWhitespace(Unread(decoder)) # <<>>)
        /\ (dcall.op = "begin_response_data" /\ dcall.ok /\ dcall'.op = "read_byte") =>
              dcall'.ok /\ dcall'.val = decoder.peeked
        /\ (dcall'.op \in {"decode_boolean", "decode_numeric_integer"} /\ dcall'.ok) =>
              \A i \in 1..Len(Taken(Unread(decoder), Unread(decoder'))) :
                  Unread(decoder)[i] \notin ResponseWhitespace
      ]_vars

\* white space skipped after a ',' up to the newline, which stays peeked
C31_Witness ==
    /\ dcall.op = "begin_response_data"
    /\ dcall.ok
    /\ dcall.pre = "DataExpected"
    /\ decoder.peeked = 10
    /\ decoder.source = <<>>

(***************************************************************************)
(* Tuples and lists (src/src/response_data.rs, src/src/program_data.rs):   *)
(* a composite is decoded from an enumerated source, or encoded after      *)
(* begin_message_unit or without it.  rt holds the member types and the    *)
(* source or the values.                                                   *)
(***************************************************************************)
\* a tuple decode that goes on after a member failed
RECURSIVE ResponseDataTupleSkipErrors(_, _, _)
ResponseDataTupleSkipErrors(d, types, vals) ==
    IF types = <<>> THEN Done(d, vals, NoByte, <<>>)
    ELSE LET x == ResponseDataDecode(d, Head(types))
         IN  IF ~x.ok /\ Len(types) = 1 THEN x
             ELSE ResponseDataTupleSkipErrors(x.d, Tail(types), Append(vals, x.val))

\* <(A, B) .. (A, B, C, D) as ResponseData>::decode: val is the tuple
RECURSIVE ResponseDataTuple(_, _, _)
ResponseDataTuple(d, types, vals) ==
    IF types = <<>> THEN Done(d, vals, NoByte, <<>>)
    ELSE LET x == ResponseDataDecode(d, Head(types))
         IN  IF ~x.ok THEN x
             ELSE ResponseDataTuple(x.d, Tail(types), Append(vals, x.val))

\* <(A, B) .. (A, B, C, D) as ProgramData>::encode
RECURSIVE ProgramDataTupleOf(_, _, _)
ProgramDataTupleOf(e, types, vals) ==
    IF types = <<>> THEN EDone(e)
    ELSE LET x == ProgramDataEncode(e, Head(types), Head(vals))
         IN  IF ~x.ok THEN x ELSE ProgramDataTupleOf(x.e, Tail(types), Tail(vals))

\* <MacroList as ResponseData>::decode (src/src/ieee/types.rs): val is the
\* list of labels
RECURSIVE MacroListLoop(_, _)
MacroListLoop(d, labels) ==
    LET x == ResponseDataString(d)
    IN  IF ~x.ok THEN x
        ELSE IF IsAtEnd(x.d) THEN [x EXCEPT !.val = Append(labels, x.val)]
        ELSE MacroListLoop(x.d, Append(labels, x.val))

MacroListDecode(d) ==
    LET first == ResponseDataString(d)
    IN  IF ~first.ok THEN first
        ELSE IF first.val = <<>> THEN [first EXCEPT !.val = <<>>]
        ELSE MacroListLoop(first.d, <<first.val>>)

BoolType == DataType("bool", U8)
U8Type == DataType("int", U8)
StrType == DataType("str", U8)

\* '1', ',', '\n' and 'x'
CompSources == SeqsUpTo({49, 44, 10, 120}, MaxComp)

\* tuples of booleans and u8 of every arity the impls have
CompTupleTypes == {t \in SeqsUpTo({BoolType, U8Type}, MaxTuple) : Len(t) >= 2}

\* strings to encode: empty, "A", and one that is not ASCII
CompStrings == {<<>>, <<65>>, <<200>>}

\* the labels "A" and "BA", and the responses made of them: each label
\* quoted, ',' between them, the message terminator at the end
MacroLabels == {<<65>>, <<66, 65>>}

MacroLabelLists == {l \in SeqsUpTo(MacroLabels, MaxItems) : Len(l) >= 1}

RECURSIVE LabelsText(_)
LabelsText(labels) ==
    <<34>> \o Head(labels) \o <<34>>
        \o (IF Len(labels) = 1 THEN <<10>> ELSE <<44>> \o LabelsText(Tail(labels)))

\* label lists, and every short source over '"', 'A', ',' and '\n'
MacroSources ==
    {LabelsText(l) : l \in MacroLabelLists} \cup SeqsUpTo({34, 65, 44, 10}, MaxComp)

\* sources of one item: ' ', '1', '\n', ',' and '"' in every order, and
\* " 1.1\n1", "#01\n1", "#11,\n1" and "#11\n,"
DataSources ==
    SeqsUpTo({32, 49, 10, 44, 34}, MaxComp)
        \cup {<<32, 49, 46, 49, 10, 49>>, <<35, 48, 49, 10, 49>>, <<35, 49, 49, 44, 10, 49>>,
              <<35, 49, 49, 10, 44>>}

\* the types of one item
ItemTypes == {BoolType, U8Type, StrType, DataType("block", U8), DataType("float", U8)}

Comp(kind, types, v) == [kind |-> kind, types |-> types, v |-> v]

DoCompDecode(kind, r) ==
    /\ rt.kind = kind
    /\ dcall.op = "new"
    /\ decoder' = r.d
    /\ dcall' = Call(kind, NoByte, decoder.state, r)
    /\ UNCHANGED <<encoder, ecall, rt, build>>

CompDecodeTuple == DoCompDecode("decode_tuple", ResponseDataTuple(decoder, rt.types, <<>>))

CompDecodeList == DoCompDecode("decode_list", ResponseDataList(decoder, rt.types[1], <<>>))

CompDecodeData == DoCompDecode("decode_data", ResponseDataDecode(decoder, rt.types[1]))

CompDecodeMacroList == DoCompDecode("decode_macro_list", MacroListDecode(decoder))

CompBeginMessageUnit ==
    /\ rt.kind \in {"encode_tuple", "encode_list"}
    /\ ecall.op = "new"
    /\ encoder' = BeginMessageUnit(encoder).e
    /\ ecall' = ECall("begin_message_unit", NoByte, encoder.state, BeginMessageUnit(encoder))
    /\ UNCHANGED <<decoder, dcall, rt, build>>

DoCompEncode(kind, r) ==
    /\ rt.kind = kind
    /\ ecall.op \in {"new", "begin_message_unit"}
    /\ encoder' = r.e
    /\ ecall' = ECall(kind, NoByte, encoder.state, r)
    /\ UNCHANGED <<decoder, dcall, rt, build>>

CompEncodeTuple == DoCompEncode("encode_tuple", ProgramDataTupleOf(encoder, rt.types, rt.v))

CompEncodeList == DoCompEncode("encode_list", ProgramDataList(encoder, rt.types[1], rt.v))

CompDecodes == {"decode_tuple", "decode_list", "decode_macro_list", "decode_data"}

InitComp ==
    /\ \/ rt \in {Comp("decode_tuple", t, src) : t \in CompTupleTypes, src \in CompSources}
       \/ rt \in {Comp("decode_list", <<t>>, src) : t \in {BoolType, U8Type}, src \in CompSources}
       \/ rt \in {Comp("decode_macro_list", <<StrType>>, src) : src \in MacroSources}
       \/ rt \in {Comp("decode_data", <<t>>, src) : t \in ItemTypes, src \in DataSources}
       \/ rt \in {Comp("encode_tuple", [i \in 1..Len(v) |-> StrType], v) :
                      v \in {x \in SeqsUpTo(CompStrings, MaxItems) : Len(x) >= 2}}
       \/ rt \in {Comp("encode_list", <<StrType>>, v) : v \in SeqsUpTo(CompStrings, MaxItems)}
    /\ decoder = NewDecoder(IF rt.kind \in CompDecodes THEN rt.v ELSE <<>>)
    /\ dcall = NoCall
    /\ encoder = NewEncoder
    /\ ecall = NoECall
    /\ build \in Builds

NextComp ==
    \/ CompDecodeTuple
    \/ CompDecodeList
    \/ CompDecodeMacroList
    \/ CompDecodeData
    \/ CompBeginMessageUnit
    \/ CompEncodeTuple
    \/ CompEncodeList

SpecComp == InitComp /\ [][NextComp]_vars

\* the decoder a tuple or list hands to its member i, every member before
\* it having been decoded
RECURSIVE MemberDecoder(_, _, _)
MemberDecoder(d, types, i) ==
    IF i = 1 THEN d
    ELSE ResponseDataDecode(MemberDecoder(d, types, i - 1), types[i - 1]).d

MemberResult(d, types, i) == ResponseDataDecode(MemberDecoder(d, types, i), types[i])

\* member i is the first that fails
FirstFailure(d, types, i) ==
    /\ ~MemberResult(d, types, i).ok
    /\ \A j \in 1..(i - 1) : MemberResult(d, types, j).ok

\* the separator and the quoted text of the first n strings of v
RECURSIVE StringsText(_, _)
StringsText(v, n) ==
    IF n = 0 THEN <<>>
    ELSE StringsText(v, n - 1) \o (IF n = 1 THEN <<32>> ELSE <<44>>) \o <<34>> \o v[n] \o <<34>>

\* the first string of v that is not ASCII, 0 when there is none
FirstNonAscii(v) ==
    IF \A i \in 1..Len(v) : IsAscii(v[i]) THEN 0
    ELSE CHOOSE i \in 1..Len(v) : ~IsAscii(v[i]) /\ \A j \in 1..(i - 1) : IsAscii(v[j])

\* C32: a tuple or list whose member fails returns the error of the first
\* member that fails, with no value, and the decoder is left as that member
\* left it: no byte is read for a later member.  An encoded tuple or list
\* of strings stops at the first string that is not ASCII: the sink holds
\* the members before it and the separator of the failing one, nothing of
\* a later member.
C32_FirstErrorPropagates ==
    /\ (rt.kind \in {"decode_tuple", "decode_list"} /\ dcall.op = rt.kind) =>
          \A i \in 1..(IF rt.kind = "decode_tuple" THEN Len(rt.types) ELSE MaxComp + 2) :
              LET types == IF rt.kind = "decode_tuple" THEN rt.types
                           ELSE [j \in 1..i |-> rt.types[1]]
              IN  (/\ FirstFailure(NewDecoder(rt.v), types, i)
                   /\ rt.kind = "decode_list" =>
                          \A j \in 1..(i - 1) :
                              ~IsAtEnd(MemberResult(NewDecoder(rt.v), types, j).d)) =>
                      /\ ~dcall.ok
                      /\ dcall.err = MemberResult(NewDecoder(rt.v), types, i).err
                      /\ decoder = MemberResult(NewDecoder(rt.v), types, i).d
                      /\ dcall.val = NoByte
    /\ (rt.kind \in {"encode_tuple", "encode_list"} /\ ecall.op = rt.kind
            /\ ecall.pre = "Header" /\ FirstNonAscii(rt.v) > 0) =>
          /\ ~ecall.ok
          /\ ecall.err = "NonAsciiString"
          /\ encoder.sink = StringsText(rt.v, FirstNonAscii(rt.v) - 1)
                                 \o (IF FirstNonAscii(rt.v) = 1 THEN <<32>> ELSE <<44>>)
    /\ (rt.kind \in {"encode_tuple", "encode_list"} /\ ecall.op = rt.kind
            /\ ecall.pre = "Initial" /\ rt.v # <<>>) =>
          /\ ~ecall.ok
          /\ ecall.err = "InvalidEncodeState"
          /\ encoder.sink = <<>>

\* a tuple of three whose second member failed on 'x': the ',' before the
\* third member is unread
C32_Witness ==
    /\ rt.kind = "decode_tuple"
    /\ dcall.op = "decode_tuple"
    /\ Len(rt.types) = 3
    /\ rt.v = <<49, 44, 120, 44>>
    /\ ~dcall.ok
    /\ dcall.err = "Parse"
    /\ Unread(decoder) = <<44>>

(***************************************************************************)
(* The end of a message (SpecEnc)                                          *)
(***************************************************************************)
MessageOps == {"begin_message_unit", "begin_program_data", "end_message", "finish"}

\* C33: once the state is End it stays End; begin_message_unit,
\* begin_program_data, end_message and finish write nothing from End, so no
\* separator and no second terminator follows the terminator; the sink
\* holds at most one terminator, and holds it exactly when the state is End.
C33_EndIsTerminal ==
    /\ [](/\ CountOf(encoder.sink, PROGRAM_MESSAGE_TERMINATOR) <= 1
          /\ CountOf(encoder.sink, PROGRAM_MESSAGE_TERMINATOR) = 1 <=> encoder.state = "End")
    /\ [][ /\ encoder.state = "End" => encoder'.state = "End"
           /\ (encoder.state = "End" /\ ecall'.op \in MessageOps) =>
                  encoder'.sink = encoder.sink
         ]_vars

\* begin_program_data refused after the message was ended
C33_Witness ==
    /\ ecall.op = "begin_program_data"
    /\ ecall.pre = "End"
    /\ ~ecall.ok
    /\ encoder.state = "End"
    /\ Last(encoder.sink) = PROGRAM_MESSAGE_TERMINATOR

Caps == (0..MaxCap) \cup {Unbounded}

\* '"', then '"', 'A', '\n' and a byte that is not ASCII
CapStringTokens == {<<34>> \o t : t \in SeqsUpTo({34, 65, 10, 200}, MaxCapTok)}

\* 'A', '1', '!' and '\n'
CapCharsTokens == SeqsUpTo({65, 49, 33, 10}, MaxCapTok)

\* 'A', '\n' and a byte that is not ASCII
CapAsciiTokens == SeqsUpTo({65, 10, 200}, MaxCapTok)

\* the blocks of the grammar check, and blocks with a length of nine digits
CapBlockTokens ==
    {h \o b : h \in {<<35, 48>>, <<35, 49, 49>>, <<35, 49, 50>>, <<35, 49, 51>>, <<35, 50, 48, 50>>},
              b \in SeqsUpTo({10, 65}, MaxCapTok)}
        \cup {<<35, 57>> \o [i \in 1..8 |-> 48] \o t :
                 t \in SeqsUpTo({49, 50, 65, 10}, MaxCapTok)}

CapTok(kind, cap, tok) == [kind |-> kind, cap |-> cap, tok |-> tok]

CapBegin ==
    /\ dcall.op = "new"
    /\ decoder' = BeginResponseData(decoder).d
    /\ dcall' = Call("begin_response_data", NoByte, decoder.state, BeginResponseData(decoder))
    /\ UNCHANGED <<encoder, ecall, rt, build>>

DoCapDecode(op, r) ==
    /\ rt.kind = op
    /\ dcall.op = "begin_response_data"
    /\ dcall.ok
    /\ decoder' = r.d
    /\ dcall' = Call(op, NoByte, decoder.state, r)
    /\ UNCHANGED <<encoder, ecall, rt, build>>

CapDecodeString == DoCapDecode("decode_string", DecodeString(decoder, rt.cap))

CapDecodeCharacters == DoCapDecode("decode_characters", DecodeCharacters(decoder, rt.cap))

CapDecodeAscii ==
    DoCapDecode("decode_arbitrary_ascii", DecodeArbitraryAscii(decoder, <<>>, rt.cap))

CapDecodeBlock == DoCapDecode("decode_arbitrary_block", DecodeArbitraryBlock(decoder, rt.cap))

InitCap ==
    /\ rt \in {CapTok("decode_string", c, t) : c \in Caps, t \in CapStringTokens}
               \cup {CapTok("decode_characters", c, t) : c \in Caps, t \in CapCharsTokens}
               \cup {CapTok("decode_arbitrary_ascii", c, t) : c \in Caps, t \in CapAsciiTokens}
               \cup {CapTok("decode_arbitrary_block", c, t) : c \in Caps, t \in CapBlockTokens}
    /\ decoder = NewDecoder(rt.tok)
    /\ dcall = NoCall
    /\ encoder = NewEncoder
    /\ ecall = NoECall
    /\ build = "release"

NextCap ==
    \/ CapBegin
    \/ CapDecodeString
    \/ CapDecodeCharacters
    \/ CapDecodeAscii
    \/ CapDecodeBlock

SpecCap == InitCap /\ [][NextCap]_vars

\* the decode function of rt.kind on the data of rt.tok with a target of
\* capacity cap
DecodeInto(kind, tok, cap) ==
    CASE kind = "decode_string" -> DecodeString(BeginResponseData(NewDecoder(tok)).d, cap)
      [] kind = "decode_characters" ->
             DecodeCharacters(BeginResponseData(NewDecoder(tok)).d, cap)
      [] kind = "decode_arbitrary_ascii" ->
             DecodeArbitraryAscii(BeginResponseData(NewDecoder(tok)).d, <<>>, cap)
      [] OTHER -> DecodeArbitraryBlock(BeginResponseData(NewDecoder(tok)).d, cap)

\* u is the outcome with a target that never refuses a write
SameUpToCapacity(u) ==
    IF Len(u.tgt) > rt.cap
    THEN /\ ~dcall.ok
         /\ dcall.err = "BufferOverflow"
         /\ dcall.tgt = SubSeq(u.tgt, 1, rt.cap)
         /\ decoder.state = "Data"
    ELSE /\ dcall.ok = u.ok
         /\ dcall.err = u.err
         /\ dcall.tgt = u.tgt
         /\ decoder = u.d

\* C35: with a target that refuses the write after rt.cap bytes, the decode
\* of a string, of characters, of arbitrary ASCII data or of a block fails
\* with BufferOverflow exactly when the decode into an unbounded target
\* would write more than rt.cap bytes, at the write that is refused and
\* with the target full; in every other case its outcome, Parse and
\* UnexpectedEnd included, is the outcome of the unbounded decode.  With an
\* unbounded target no decode fails with BufferOverflow: the nine-byte
\* buffer of the block length never overflows.
C35_BufferOverflow ==
    dcall.op \in {"decode_string", "decode_characters", "decode_arbitrary_ascii",
                  "decode_arbitrary_block"} =>
        /\ SameUpToCapacity(DecodeInto(rt.kind, rt.tok, Unbounded))
        /\ (~dcall.ok /\ dcall.err = "BufferOverflow") =>
               rt.cap # Unbounded /\ Len(dcall.tgt) = rt.cap

\* a block of two bytes into a target of one byte: the second byte was read
\* and refused
C35_Witness ==
    /\ dcall.op = "decode_arbitrary_block"
    /\ rt.tok = <<35, 49, 50, 65, 65, 10>>
    /\ rt.cap = 1
    /\ ~dcall.ok
    /\ dcall.err = "BufferOverflow"
    /\ dcall.tgt = <<65>>
    /\ Unread(decoder) = <<10>>

(***************************************************************************)
(* The list of macro labels (SpecComp)                                     *)
(***************************************************************************)
\* C36: MacroList::decode of a response of n >= 1 quoted labels that are
\* not empty, with ',' between them and the message terminator at the end,
\* returns those n labels in order and leaves the decoder at End, for
\* every n, n = 1 included.
C36_MacroList ==
    dcall.op = "decode_macro_list" =>
        \A l \in MacroLabelLists :
            rt.v = LabelsText(l) =>
                dcall.ok /\ dcall.val = l /\ decoder.state = "End"

(***************************************************************************)
(* The state after a decode that failed (SpecTok)                          *)
(***************************************************************************)
\* C37: when a decode function returns an error no terminator has been
\* applied: the state is still Data, so that a later begin_response_data
\* or finish fails.
C37_ErrorLeavesData ==
    (dcall.op \in AllDecodeOps /\ ~dcall.ok) => decoder.state = "Data"

(***************************************************************************)
(* The peeked byte after ResponseData::decode (SpecComp)                   *)
(***************************************************************************)
\* C38: when a ResponseData::decode has returned, with a value or with an
\* error, the decoder holds no peeked byte; when it has left the state at
\* End, finish returns the source, and the source is what follows a
\* message terminator in the input (the first one when the items are
\* booleans and integers): no byte was lost in the lookahead.
C38_NoPeekedByteLeft ==
    dcall.op \in CompDecodes =>
        /\ decoder.peeked = NoByte
        /\ decoder.state = "End" =>
              /\ Finish(decoder).ok
              /\ Finish(decoder).val = decoder.source
              /\ \E n \in 1..Len(rt.v) :
                    /\ rt.v[n] = 10
                    /\ decoder.source = SubSeq(rt.v, n + 1, Len(rt.v))
                    /\ rt.kind \in {"decode_tuple", "decode_list"} =>
                           \A j \in 1..(n - 1) : rt.v[j] # 10

\* a boolean after white space, with a byte of the next message behind it
C38_Witness ==
    /\ dcall.op = "decode_data"
    /\ rt.v = <<32, 49, 10, 49>>
    /\ dcall.ok
    /\ decoder.state = "End"
    /\ decoder.peeked = NoByte
    /\ decoder.source = <<49>>

(***************************************************************************)
(* The loop of <ResponseList<T> as ResponseData>::decode, one iteration a  *)
(* step: rt.result is the Vec built so far, rt.done is set when the loop   *)
(* has returned, and dcall is then the outcome of the decode.  The source  *)
(* is chosen when the Decoder is made.                                     *)
(***************************************************************************)
\* '1', ',', ';', '\n' and ' '
ListSources == SeqsUpTo({49, 44, 59, 10, 32}, MaxComp + 1)

ListRun(t, src) ==
    [kind |-> "list_loop", types |-> <<t>>, v |-> src, result |-> <<>>, done |-> FALSE]

\* result.push(T::decode(decoder)?); if decoder.is_at_end() { break Ok(..) }
ListPushed(x) ==
    /\ decoder' = x.d
    /\ IF ~x.ok
       THEN /\ dcall' = Call("decode_list", NoByte, decoder.state, x)
            /\ rt' = [rt EXCEPT !.done = TRUE]
       ELSE /\ dcall' = Call(IF IsAtEnd(x.d) THEN "decode_list" ELSE "push", NoByte,
                             decoder.state, [x EXCEPT !.val = Append(rt.result, x.val)])
            /\ rt' = [rt EXCEPT !.result = Append(rt.result, x.val), !.done = IsAtEnd(x.d)]
    /\ UNCHANGED <<encoder, ecall, build>>

ListIterate ==
    /\ rt.kind = "list_loop"
    /\ ~rt.done
    /\ ListPushed(ResponseDataDecode(decoder, rt.types[1]))

\* Decoder::new(source) for a list of booleans or of u8
ListNew ==
    /\ rt = NoRt
    /\ \E t \in {BoolType, U8Type}, src \in ListSources :
          /\ rt' = ListRun(t, src)
          /\ decoder' = NewDecoder(src)
    /\ UNCHANGED <<dcall, encoder, ecall, build>>

InitList ==
    /\ rt = NoRt
    /\ decoder = NewDecoder(<<>>)
    /\ dcall = NoCall
    /\ encoder = NewEncoder
    /\ ecall = NoECall
    /\ build = "release"

NextList == ListNew \/ ListIterate

\* what a step of ListIterate does to rt: the loop returns, with the error
\* of an element or at the message terminator, or an element is pushed.  It
\* is enabled exactly when ListIterate is.
ListAdvance ==
    /\ rt.kind = "list_loop"
    /\ ~rt.done
    /\ \/ rt' = [rt EXCEPT !.done = TRUE]
       \/ Len(rt'.result) = Len(rt.result) + 1

\* the loop is sequential code: while it has not returned, its next
\* iteration is run
SpecList == InitList /\ [][NextList]_vars /\ WF_rt(ListAdvance)

\* the bytes of the source taken so far
ListConsumed == SubSeq(rt.v, 1, Len(rt.v) - Len(Unread(decoder)))

ListInvariant ==
    rt.kind = "list_loop" =>
    /\ 2 * Len(rt.result) <= Len(ListConsumed)
    /\ (decoder.state = "End" /\ dcall.ok) => rt.done
    /\ rt.done =>
          /\ dcall.op = "decode_list"
          /\ dcall.ok = ResponseDataList(NewDecoder(rt.v), rt.types[1], <<>>).ok
          /\ dcall.err = ResponseDataList(NewDecoder(rt.v), rt.types[1], <<>>).err
          /\ decoder = ResponseDataList(NewDecoder(rt.v), rt.types[1], <<>>).d
          /\ dcall.ok =>
                /\ dcall.val = rt.result
                /\ dcall.val = ResponseDataList(NewDecoder(rt.v), rt.types[1], <<>>).val
                /\ Len(dcall.val) >= 1
                /\ decoder.state = "End"
                /\ Last(ListConsumed) = 10
                /\ CountOf(ListConsumed, 10) = 1
                /\ Len(dcall.val) = 1 + CountOf(ListConsumed, 44) + CountOf(ListConsumed, 59)
    /\ (dcall.op = "push") =>
          /\ ~rt.done
          /\ decoder.state \in {"DataExpected", "MessageUnitExpected"}
          /\ Last(ListConsumed) \in {44, 59}

\* C39: the loop of ResponseList::decode ends on every finite source.  Every
\* element it pushes has taken bytes from the source; it returns the list,
\* of one element at least, as soon as an element ended with the message
\* terminator, goes on to the next element after ',' and ';', and returns
\* the error of the first element that fails; the outcome is that of the
\* decode taken as one call.
C39_ListTerminates ==
    /\ []ListInvariant
    /\ (rt.kind = "list_loop") ~> (rt.kind = "list_loop" /\ rt.done)

\* two elements, the second after ';' and white space, returned at the
\* terminator
C39_Witness ==
    /\ rt.kind = "list_loop"
    /\ rt.done
    /\ dcall.ok
    /\ rt.v = <<49, 59, 32, 49, 10>>
    /\ Len(dcall.val) = 2
    /\ decoder.state = "End"

(***************************************************************************)
(* ArrayBuffer<LEN> on its own (src/src/internal.rs:104-147): a buffer of  *)
(* capacity N taking any sequence of push, push_all, write_str and finish  *)
(* calls.  rt holds the buffer, the buffer before the last call, the call  *)
(* and its result, and the bytes of the appends that returned Ok.          *)
(***************************************************************************)
MaxBufCap == 3
MaxBufArg == 2

BufBytes == {65, 66}
BufArgs == SeqsUpTo(BufBytes, MaxBufArg)
BufAppends == {"push", "push_all", "write_str"}

BufCalled(op, arg, before, after, ok, err, out) ==
    /\ rt' = [kind |-> "buf", buf |-> after, before |-> before, op |-> op, arg |-> arg,
              ok |-> ok, err |-> err, out |-> out,
              appended |-> IF op \in BufAppends /\ ok
                           THEN rt.appended \o arg ELSE rt.appended]
    /\ UNCHANGED <<decoder, dcall, encoder, ecall, build>>

BufNew ==
    \E n \in 0..MaxBufCap :
        /\ rt' = [kind |-> "buf", buf |-> ArrayBufferNew(n), before |-> ArrayBufferNew(n),
                  op |-> "new", arg |-> <<>>, ok |-> TRUE, err |-> "None", out |-> <<>>,
                  appended |-> <<>>]
        /\ UNCHANGED <<decoder, dcall, encoder, ecall, build>>

BufPush ==
    /\ rt.kind = "buf"
    /\ \E b \in BufBytes :
          LET w == ArrayBufferPush(rt.buf, b)
          IN  BufCalled("push", <<b>>, rt.buf, w.buf, w.ok,
                        IF w.ok THEN "None" ELSE "ArrayBufferFull", <<>>)

BufPushAll ==
    /\ rt.kind = "buf"
    /\ \E bytes \in BufArgs :
          LET w == ArrayBufferPushAll(rt.buf, bytes)
          IN  BufCalled("push_all", bytes, rt.buf, w.buf, w.ok,
                        IF w.ok THEN "None" ELSE "ArrayBufferFull", <<>>)

BufWriteStr ==
    /\ rt.kind = "buf"
    /\ \E s \in BufArgs :
          LET w == ArrayBufferWriteStr(rt.buf, s)
          IN  BufCalled("write_str", s, rt.buf, w.buf, w.ok, w.err, <<>>)

BufFinish ==
    /\ rt.kind = "buf"
    /\ BufCalled("finish", <<>>, rt.buf, rt.buf, TRUE, "None", ArrayBufferFinish(rt.buf))

InitBuf ==
    /\ rt = NoRt
    /\ decoder = NewDecoder(<<>>)
    /\ dcall = NoCall
    /\ encoder = NewEncoder
    /\ ecall = NoECall
    /\ build = "release"

NextBuf == BufNew \/ BufPush \/ BufPushAll \/ BufWriteStr \/ BufFinish

SpecBuf == InitBuf /\ [][NextBuf]_vars

\* the count stays within the capacity, the contents are the bytes of the
\* successful appends in order and finish returns them; an append succeeds
\* exactly when it fits, and a refused one changes nothing
BufContract ==
    /\ Len(rt.buf.bytes) <= rt.buf.cap
    /\ rt.buf.cap = rt.before.cap
    /\ ArrayBufferFinish(rt.buf) = rt.appended
    /\ (rt.op = "finish") => (rt.out = rt.appended /\ rt.buf = rt.before)
    /\ (rt.op \in BufAppends) =>
          /\ rt.ok <=> (Len(rt.before.bytes) + Len(rt.arg) <= rt.buf.cap)
          /\ rt.ok => (rt.buf.bytes = rt.before.bytes \o rt.arg /\ rt.err = "None")
          /\ ~rt.ok => rt.buf = rt.before

\* C40 as stated: for an ArrayBuffer of capacity N, after any sequence of
\* push, push_all and write_str calls the count of bytes written is at most
\* N and finish returns exactly the bytes of the successful appends in
\* order; every append that would exceed N returns ArrayBufferFull and
\* leaves the contents and the count unchanged.
C40_ArrayBufferFullOnEveryAppend ==
    (rt.kind = "buf") =>
        /\ BufContract
        /\ (rt.op \in BufAppends /\ ~rt.ok) => rt.err = "ArrayBufferFull"

\* C40 with the error of each operation: the count of bytes written is at
\* most N and finish returns exactly the bytes of the successful appends in
\* order; an append that would exceed N returns an error value and leaves
\* the contents and the count unchanged, the error being ArrayBufferFull
\* from push and push_all and fmt::Error from write_str.
C40_ArrayBuffer ==
    (rt.kind = "buf") =>
        /\ BufContract
        /\ (rt.op \in {"push", "push_all"} /\ ~rt.ok) => rt.err = "ArrayBufferFull"
        /\ (rt.op = "write_str" /\ ~rt.ok) => rt.err = "fmt::Error"

\* a push_all of two bytes refused by a buffer of three holding two, after
\* which finish still returns the two
C40_Witness ==
    /\ rt.kind = "buf"
    /\ rt.op = "push_all"
    /\ ~rt.ok
    /\ rt.buf.cap = 3
    /\ rt.arg = <<66, 66>>
    /\ rt.appended = <<65, 66>>
    /\ ArrayBufferFinish(rt.buf) = <<65, 66>>
====
